---- MODULE Spec2Model ----
(***************************************************************************)
(* Document lifecycle of one client (tenant) of the FinTech automation     *)
(* scripts: the Buffer (working) sheet, the Final (pending categorization) *)
(* sheet, the Inflow and Outflow sheets, the Drive folders of the files    *)
(* and the script lock, driven by concurrent invocations of                *)
(* processClientDocumentsWithAI, processBufferChanges,                     *)
(* moveFilesToInflowOutflow and retryFailedAIProcessing and by the edits   *)
(* an operator makes in the Buffer sheet.                                  *)
(*                                                                         *)
(* Strings are modelled by their structure.  A Reason cell is the sequence *)
(* of its pieces (fixed prefixes, the human text, a timestamp); a file     *)
(* name is the sequence of the pieces between its underscores, without     *)
(* the extension, and the extension; the empty cell is the empty sequence. *)
(* Every timestamp                                                         *)
(* is the one token TS.  The columns no guard reads (Message ID, Email     *)
(* Subject, Email Sender, Date Added, Last Modified, Unique File ID, AI    *)
(* Confidence, Processing Date, Moved Date) are left out of the rows; a    *)
(* Buffer row keeps its File URL, which names the file in Drive.           *)
(*                                                                         *)
(* A handler is a sequence of steps, one for each call it makes to the     *)
(* spreadsheet, to Drive or to the lock service; what it has read is in    *)
(* its locals (activeFiles, deletionData, ..., frame, update), and the     *)
(* steps of other executions and the operator's edits come in between.     *)
(* Calls that read one sheet in a row (getLastRow and getValues) are one   *)
(* step.  The specifications named Seq start a handler only when no other  *)
(* is running; the operator's edits come between its steps all the same.   *)
(*                                                                         *)
(* cleanupOldAIData and archiveOldData, which no function of the scripts   *)
(* calls, and cleanupAndOptimizeSheets are the maintenance steps of        *)
(* SpecMaintenance.  Left out: validateAndRepairSheetStructure, which      *)
(* creates a sheet that is missing; the sheets of the model are there.     *)
(***************************************************************************)
EXTENDS Integers, Sequences, FiniteSets, TLC

\* ---------------------------------------------------------------- bounds
NumRows == 2
NumRowsConcurrent == 1
NumProcs == 2

\* External events (operator edits, retry commands, files lost in Drive) and
\* executions started, with concurrent executions: a failed reactivation
\* takes three events (mark Deleted, mark Active, file removed).
MaxExternal == 3
MaxInvocations == 3

\* The same with one execution at a time.
MaxExternalSeq == 3
MaxInvocationsSeq == 4
MaxFlowRows == 3

\* Drive hands out ids up to this one, and the clock stops there.
MaxResourceId == 6
MaxClock == 2

\* Calls of addClientWithAtomicTransaction, updateClient and
\* processAllClientsWithAI that may start.
MaxClientCalls == 2
MaxPasses == 5

\* ------------------------------------------------------ program constants
MAX_PROCESSING_ATTEMPTS == 3

ACTIVE == "Active"
DELETED == "Deleted"
FAILED == "Failed"
INACTIVE == "Inactive"
INFLOW == "inflow"
OUTFLOW == "outflow"

\* SYSTEM_CONFIG.AI and SYSTEM_CONFIG.PROCESSING; the size is 10 * 1024 * 1024.
MAX_RETRIES == 3
MAX_FILE_SIZE_FOR_AI == 10485760
RETRY_DELAY == 2000

\* The handlers.
AI_PASS == "processClientDocumentsWithAI"
PBC == "processBufferChanges"
MOVE == "moveFilesToInflowOutflow"

Procs == 1..NumProcs
Folders == {"Buffer", "Inflow", "Outflow"}
TS == "<timestamp>"

VARIABLES
    buffer,            \* Buffer sheet: row index -> cells
    final,             \* Final sheet: sequence of rows
    inflow,            \* Inflow sheet: sequence of rows
    outflow,           \* Outflow sheet: sequence of rows
    drive,             \* Drive: row's file -> [exists, parents]
    lock,              \* script lock: 0 free, else the invocation holding it
    pc,                \* invocation -> where it is in its handler
    activeFiles,       \* invocation -> activeFiles still to process
    deletionData,      \* invocation -> deletionData still to process
    reactivationData,  \* invocation -> reactivationData still to process
    finalSheetData,    \* invocation -> finalSheetData still to process
    errorCount,        \* invocation -> errors collected by its batch so far
    result,            \* invocation -> what it returned or threw
    enriched,          \* history: row -> an enrichment succeeded since the last reset
    external,          \* external actions (operator edits, commands, Drive loss) left
    job,               \* processFileWithAI: the file, the API key, MAX_RETRIES
    jobPc,             \* processFileWithAI: where it is
    attempt,           \* retryWithBackoff: attempt
    lastError,         \* retryWithBackoff: lastError
    invocations,       \* history: calls of callGeminiAPI made for the file
    sleeps,            \* history: the delays slept by retryWithBackoff
    aiResult,          \* processFileWithAI: what it returned
    master,            \* master config sheet: sequence of client rows
    cloud,             \* Drive: root folders and spreadsheets, and the ids in the trash
    creation,          \* addClientWithAtomicTransaction: position, createdResources
    lastRun,           \* history: clients of the last processAllClientsWithAI
    now,               \* clock of getCurrentTimestamp
    passes,            \* history: processClientDocumentsWithAI passes that returned
    failedRows,        \* invocation -> rows retryFailedAIProcessing read as Failed
    quota,             \* executions of the handlers that may still start
    waiting,           \* addClientWithAtomicTransaction: a second, preempted execution
    frame,             \* invocation -> the locals of the function it is in
    update             \* updateClient: position, the name, the row found, the status to write

vars == <<buffer, final, inflow, outflow, drive, lock, pc, activeFiles,
          deletionData, reactivationData, finalSheetData, errorCount,
          result, enriched, external,
          job, jobPc, attempt, lastError, invocations, sleeps, aiResult,
          master, cloud, creation, lastRun, now, passes, failedRows,
          waiting, frame, update, quota>>

\* The state of one processFileWithAI call.
jobVars == <<job, jobPc, attempt, lastError, invocations, sleeps, aiResult>>

\* The clients and their resources.
tenantVars == <<master, cloud, creation, lastRun, now, update>>

\* The passes counted, the snapshot of an operator retry and the preempted
\* creation.
passVars == <<passes, failedRows, waiting, quota>>

\* The data rows of the Buffer sheet.
Rows == DOMAIN buffer

sheets == <<buffer, final, inflow, outflow, drive>>
locals == <<activeFiles, deletionData, reactivationData, finalSheetData, errorCount,
           frame>>

\* ------------------------------------------------------------- documents
\* The File URL cell of a Buffer row; the ingestion gives each file its own
\* and Drive is indexed by it.
FileUrl(r) == buffer[r].fileUrl

\* DriveApp.getFileById(extractFileIdFromUrl(fileUrl)): the file, when the
\* cell holds the URL of one.
fileOf(fileUrl) ==
    IF fileUrl \in DOMAIN drive THEN drive[fileUrl]
    ELSE [exists |-> FALSE, parents |-> {}]

\* A file name: the pieces between its underscores (stem) and the text that
\* follows the last piece without an underscore (ext); "scan.pdf" and a
\* name without a dot, "scan".  The empty cell is NoName.
Name(stem, ext) == [stem |-> stem, ext |-> ext]
NoName == Name(<<>>, "")
ScanPdf == Name(<<"scan">>, ".pdf")
Scan == Name(<<"scan">>, "")
OriginalFilenames == {ScanPdf, Scan}

\* The Original File Name cell of a Buffer row.
OriginalFilename(r) == buffer[r].originalFilename

\* String.prototype.trim on a cell: blank tokens at both ends go.
RECURSIVE trim(_)
trim(reason) ==
    IF reason = <<>> THEN <<>>
    ELSE IF Head(reason) = " " THEN trim(Tail(reason))
    ELSE IF reason[Len(reason)] = " " THEN trim(SubSeq(reason, 1, Len(reason) - 1))
    ELSE reason

\* String.prototype.toLowerCase on a piece of a content type or on a name.
toLowerCase(piece) ==
    CASE piece = "IMAGE/PNG" -> "image/png"
      [] piece = "ACME" -> "acme"
      [] piece = "RECEIPT" -> "receipt"
      [] piece = "Expense" -> "expense"
      [] piece \in {"Inflow", "INFLOW"} -> "inflow"
      [] piece \in {"Outflow", "OUTFLOW"} -> "outflow"
      [] OTHER -> piece

\* String.prototype.includes
includes(mimeType, type) ==
    \E i \in DOMAIN mimeType : toLowerCase(mimeType[i]) = type

\* ------------------------------------------------ AI response validation
\* A value of the JSON object the AI service answers with: its type, the
\* pieces of its text (words, blanks and other separators) when it is a
\* string, its hundredths when it is a number.
Undefined == [t |-> "undefined", s |-> <<>>, n |-> 0]
Str(s) == [t |-> "string", s |-> s, n |-> 0]
Num(n) == [t |-> "number", s |-> <<>>, n |-> n]
Obj == [t |-> "object", s |-> <<>>, n |-> 0]

\* !value
falsy(value) ==
    \/ value.t = "undefined"
    \/ value.t = "string" /\ value.s = <<>>
    \/ value.t = "number" /\ value.n = 0

\* formatDateForFilename(new Date())
TODAY == "<today>"

\* The time zone of the script: UTC, or one east of it.  A zone west of UTC
\* gives the dates UTC gives.
TimeZones == {"Etc/UTC", "Asia/Kolkata"}

\* new Date(dateInput), formatted by toISOString; "" when the date is
\* invalid.  An ISO date is a midnight of UTC; any other text is a midnight
\* of the script's zone, which east of UTC is the day before in UTC.  A
\* number is a time in milliseconds, its fraction dropped; the numbers
\* followed are within five hours of the epoch.  An object is no date.
parseDate(dateInput, timeZone) ==
    IF dateInput.t = "number"
    THEN CASE dateInput.n >= -1800000000 /\ dateInput.n <= -100 -> "1969-12-31"
           [] dateInput.n > -100 /\ dateInput.n <= 1800000000 -> "1970-01-01"
    ELSE CASE dateInput.t = "string" /\ dateInput.s = <<"2024-01-05">> -> "2024-01-05"
           [] dateInput.t = "string" /\ dateInput.s = <<"Jan", " ", "5", " ", "2024">>
                 -> IF timeZone = "Asia/Kolkata" THEN "2024-01-04" ELSE "2024-01-05"
           [] OTHER -> ""

\* A valid YYYY-MM-DD string is kept, anything else that parses is
\* formatted, the rest is today.
cleanAndValidateDate(dateInput, timeZone) ==
    IF falsy(dateInput) THEN TODAY
    ELSE IF parseDate(dateInput, timeZone) # "" THEN parseDate(dateInput, timeZone)
    ELSE TODAY

\* The pieces that are no word: blanks, underscores, characters that are
\* invalid in a file name or not ASCII.
Separators == {" ", "_", "/", "<non-ASCII>"}

\* Variant: no default, the cleaned text is returned as it is.
cleanAndValidateText_NoDefault(textInput, defaultValue) ==
    IF textInput.t # "string" THEN <<>>
    ELSE SelectSeq(textInput.s, LAMBDA piece : piece \notin Separators)

\* Every run of separators becomes one underscore and those at the ends
\* go: what is left is the words, joined by underscores.
cleanAndValidateText(textInput, defaultValue) ==
    IF falsy(textInput) \/ textInput.t # "string" THEN defaultValue
    ELSE LET cleaned == SelectSeq(textInput.s, LAMBDA piece : piece \notin Separators)
         IN IF cleaned # <<>> THEN cleaned ELSE defaultValue

\* parseFloat of the cleaned text, toFixed(2); a number is in hundredths.
cleanAndValidateAmount(amountInput) ==
    CASE falsy(amountInput) -> "0.00"
      [] amountInput.t = "string" /\ amountInput.s = <<"100.00">> -> "100.00"
      [] amountInput.t = "string" /\ amountInput.s = <<"$", "1,234.5">> -> "1234.50"
      [] amountInput.t = "string" /\ amountInput.s = <<"(", "50", ")">> -> "-50.00"
      [] amountInput.t = "number" /\ amountInput.n = 10000 -> "100.00"
      [] OTHER -> "0.00"

validTypes == {"invoice", "receipt", "bill", "statement", "contract", "other"}

\* toString().toLowerCase().trim(), as one word; "" when it is none.
cleanedWord(typeInput) ==
    IF typeInput.t = "string" /\ Len(trim(typeInput.s)) = 1
    THEN toLowerCase(trim(typeInput.s)[1])
    ELSE ""

cleanAndValidateDocumentType(typeInput) ==
    IF falsy(typeInput) THEN "unknown"
    ELSE IF cleanedWord(typeInput) \in validTypes THEN cleanedWord(typeInput)
    ELSE "unknown"

inflowSynonyms == {"income", "revenue", "payment_received", "credit", "deposit"}
outflowSynonyms ==
    {"expense", "cost", "payment_made", "debit", "withdrawal", "bill", "purchase"}

cleanAndValidateTransactionType(typeInput) ==
    IF falsy(typeInput) THEN INFLOW
    ELSE IF cleanedWord(typeInput) \in {INFLOW, OUTFLOW} THEN cleanedWord(typeInput)
    ELSE IF \E synonym \in inflowSynonyms : includes(typeInput.s, synonym) THEN INFLOW
    ELSE IF \E synonym \in outflowSynonyms : includes(typeInput.s, synonym) THEN OUTFLOW
    ELSE INFLOW

\* parseFloat(confidenceInput), in hundredths; isNaN for what is no number.
isNaN(confidenceInput) ==
    ~ \/ confidenceInput.t = "number"
      \/ confidenceInput.t = "string" /\ confidenceInput.s \in {<<"0.95">>, <<"1.5">>}

parseFloat(confidenceInput) ==
    CASE confidenceInput.t = "number" -> confidenceInput.n
      [] confidenceInput.s = <<"0.95">> -> 95
      [] confidenceInput.s = <<"1.5">> -> 150
      [] OTHER -> 0

min(a, b) == IF a <= b THEN a ELSE b
max(a, b) == IF a >= b THEN a ELSE b

\* Math.max(0, Math.min(1, parsed)); 0.8 for what is missing or no number.
cleanAndValidateConfidence(confidenceInput) ==
    IF falsy(confidenceInput) \/ isNaN(confidenceInput) THEN 80
    ELSE max(0, min(100, parseFloat(confidenceInput)))

\* The first eight characters of generateUniqueId().
UID == "<uuid>"

validateAndCleanAIResponse(data, timeZone) ==
    [date |-> cleanAndValidateDate(data.date, timeZone),
     vendorName |-> cleanAndValidateText(data.vendorName, <<"Unknown", "Vendor">>),
     invoiceNumber |-> cleanAndValidateText(data.invoiceNumber, <<UID>>),
     amount |-> cleanAndValidateAmount(data.amount),
     documentType |-> cleanAndValidateDocumentType(data.documentType),
     transactionType |-> cleanAndValidateTransactionType(data.transactionType),
     confidence |-> cleanAndValidateConfidence(data.confidence)]

\* The JSON object the AI service answers with for the document of row r:
\* odd rows hold an outflow document of vendor "Acme Co", even rows an
\* inflow document of vendor "Acme".
aiResponse(r) ==
    [date |-> Str(<<"2024-01-05">>),
     vendorName |-> Str(IF r % 2 = 1 THEN <<"Acme", " ", "Co">> ELSE <<"Acme">>),
     invoiceNumber |-> Str(<<"INV-9">>),
     amount |-> Str(<<"100.00">>),
     documentType |-> Str(<<"invoice">>),
     transactionType |-> Str(IF r % 2 = 1 THEN <<OUTFLOW>> ELSE <<INFLOW>>),
     confidence |-> Str(<<"0.95">>)]

\* What validateAndCleanAIResponse makes of it: its date is an ISO date,
\* which is kept as it is in every zone.
validatedData(r) == validateAndCleanAIResponse(aiResponse(r), "Etc/UTC")

\* ------------------------------------------------------------ file names
\* The words of a vendor name of 81 characters and an invoice number of 90.
LongVendor ==
    <<"International", "Business", "Machines", "Corporation", "of", "North",
      "America", "Incorporated", "Limited">>
LongInvoice ==
    "INVOICE-NUMBER-000000000000000000000000000000000000000000000000000000000000000000000000001"

\* piece.length
chars(piece) ==
    CASE piece \in {""} -> 0
      [] piece \in {"9"} -> 1
      [] piece \in {"Co", "of"} -> 2
      [] piece \in {"Co.", "INV", "..."} -> 3
      [] piece \in {"Acme", "file", "0.00", ".pdf", "scan"} -> 4
      [] piece \in {"INV-9", "North"} -> 5
      [] piece \in {"Vendor", "100.00", "-50.00", "Busine"} -> 6
      [] piece \in {"Unknown", "unnamed", "1234.50", "America", "Limited"} -> 7
      [] piece \in {UID, "Business", "Machines"} -> 8
      [] piece \in {"NoInvoice"} -> 9
      [] piece \in {"2024-01-05", "2024-01-04", "1970-01-01", "1969-12-31", TODAY} -> 10
      [] piece \in {"Corporation"} -> 11
      [] piece \in {"Incorporated"} -> 12
      [] piece \in {"International"} -> 13
      [] piece \in {"INVOICE-NUMBER-"} -> 15
      [] piece \in {LongInvoice} -> 90

\* The length of the pieces joined by underscores.
RECURSIVE length(_)
length(pieces) ==
    IF pieces = <<>> THEN 0
    ELSE IF Tail(pieces) = <<>> THEN chars(Head(pieces))
    ELSE chars(Head(pieces)) + 1 + length(Tail(pieces))

\* piece.substring(0, n)
prefix(piece, n) ==
    CASE n >= chars(piece) -> piece
      [] n <= 0 -> ""
      [] piece = "Business" /\ n = 6 -> "Busine"
      [] piece = LongInvoice /\ n = 15 -> "INVOICE-NUMBER-"

\* String.prototype.substring(0, n) on the pieces joined by underscores; a
\* cut right after an underscore leaves an empty last piece.
RECURSIVE substring(_, _)
substring(pieces, n) ==
    IF pieces = <<>> THEN <<>>
    ELSE IF n <= chars(Head(pieces)) \/ Tail(pieces) = <<>>
    THEN <<prefix(Head(pieces), n)>>
    ELSE <<Head(pieces)>> \o substring(Tail(pieces), n - chars(Head(pieces)) - 1)

MAX_FILENAME_LENGTH == 100

\* piece.replace(/\.+$/, '')
withoutTrailingDots(piece) ==
    CASE piece = "Co." -> "Co"
      [] piece = "..." -> ""
      [] OTHER -> piece

\* cleanFilename of a text that cleanAndValidateText has cleaned: '' for
\* what is falsy, the trailing dots go (and the underscore they leave at the
\* end), the first MAX_FILENAME_LENGTH characters are kept, and what is
\* empty by then is 'unnamed_file'.
cleanFilename(filename) ==
    IF filename = <<>> THEN <<>>
    ELSE LET last == withoutTrailingDots(filename[Len(filename)])
             front == SubSeq(filename, 1, Len(filename) - 1)
             cleaned == IF last = "" THEN front ELSE Append(front, last)
             limited == IF length(cleaned) > MAX_FILENAME_LENGTH
                        THEN substring(cleaned, MAX_FILENAME_LENGTH)
                        ELSE cleaned
         IN IF limited = <<>> THEN <<"unnamed", "file">> ELSE limited

\* originalFilename.substring(originalFilename.lastIndexOf('.')): the
\* extension with its dot; the whole name when it has no dot.
extension(originalFilename) ==
    CASE originalFilename = ScanPdf -> ".pdf"
      [] originalFilename = Scan -> "scan"

\* `${date}_${vendor}_${invoice}_${amount}${extension}`; a name longer than
\* MAX_FILENAME_LENGTH is built again with the first 20 characters of the
\* vendor and the first 15 of the invoice number; the catch returns
\* originalFilename, which is reached when that is no string.
generateFilenameFromAIData(aiData, originalFilename) ==
    IF originalFilename \notin OriginalFilenames THEN originalFilename
    ELSE LET date == IF aiData.date = "" THEN TODAY ELSE aiData.date
             vendor == IF cleanFilename(aiData.vendorName) = <<>> THEN <<"Unknown">>
                       ELSE cleanFilename(aiData.vendorName)
             invoice == IF cleanFilename(aiData.invoiceNumber) = <<>> THEN <<"NoInvoice">>
                        ELSE cleanFilename(aiData.invoiceNumber)
             amount == IF aiData.amount = "" THEN "0.00" ELSE aiData.amount
             newFilename == <<date>> \o vendor \o invoice \o <<amount>>
             truncated == <<date>> \o substring(vendor, 20) \o substring(invoice, 15)
                              \o <<amount>>
         IN IF length(newFilename) + chars(extension(originalFilename))
                  > MAX_FILENAME_LENGTH
            THEN Name(truncated, extension(originalFilename))
            ELSE Name(newFilename, extension(originalFilename))

NoParse == [none |-> TRUE]

\* The pieces with a dot in them: the amounts.
Dotted == {"100.00", "1234.50", "0.00", "-50.00"}

\* piece.substring(0, piece.lastIndexOf('.'))
beforeLastDot(piece) ==
    CASE piece = "100.00" -> "100"
      [] piece = "1234.50" -> "1234"
      [] piece = "0.00" -> "0"
      [] piece = "-50.00" -> "-50"

\* filename.substring(0, filename.lastIndexOf('.')).split('_'): with an
\* extension the stem; without one the name is cut at the last dot of the
\* stem; a name without any dot gives the one piece ''.
nameWithoutExtension(filename) ==
    IF filename.ext = ".pdf" THEN filename.stem
    ELSE LET dotted == {i \in 1..Len(filename.stem) : filename.stem[i] \in Dotted}
         IN IF dotted = {} THEN <<"">>
            ELSE LET i == CHOOSE i \in dotted : \A j \in dotted : j <= i
                 IN Append(SubSeq(filename.stem, 1, i - 1),
                           beforeLastDot(filename.stem[i]))

\* The first four pieces of the name without extension, when it has four.
parseFilenameForAIData(filename) ==
    LET parts == nameWithoutExtension(filename)
    IN IF Len(parts) >= 4
       THEN [date |-> parts[1],
             vendorName |-> <<parts[2]>>,
             invoiceNumber |-> <<parts[3]>>,
             amount |-> parts[4]]
       ELSE NoParse

\* reason.startsWith(prefix)
startsWith(reason, searchString) == Len(reason) > 0 /\ reason[1] = searchString

\* --------------------------------------------------------------- sheets
BufferRows(buf) == [i \in 1..Len(buf) |-> i]

\* sheet.appendRow(row)
appendRow(sheet, row) == Append(sheet, row)

\* Some data row of the sheet has this File URL.
hasUrl(sheet, fileUrl) == \E i \in 1..Len(sheet) : sheet[i].fileUrl = fileUrl

\* The data rows of the sheet with this File URL.
rowsOf(sheet, fileUrl) == SelectSeq(sheet, LAMBDA row : row.fileUrl = fileUrl)

\* ------------------------------------------------- AllProcessor: AI pass
\* Variant: rows at the attempts cap are taken too.
getActiveFilesFromBuffer_AtCap(buf) ==
    LET sel == SelectSeq(BufferRows(buf), LAMBDA r :
                   buf[r].status = ACTIVE
                   /\ buf[r].attempts <= MAX_PROCESSING_ATTEMPTS
                   /\ buf[r].originalFilename # NoName
                   /\ buf[r].fileUrl # 0)
    IN [i \in 1..Len(sel) |->
           [rowIndex |-> sel[i],
            fileUrl |-> buf[sel[i]].fileUrl,
            originalFilename |-> buf[sel[i]].originalFilename,
            changedFilename |-> buf[sel[i]].changedFilename,
            invoiceNumber |-> buf[sel[i]].invoiceNumber,
            reason |-> buf[sel[i]].reason]]

\* Active rows below the attempts cap that have an Original File Name and
\* a File URL, in sheet order, with the cells read.
getActiveFilesFromBuffer(buf) ==
    LET sel == SelectSeq(BufferRows(buf), LAMBDA r :
                   buf[r].status = ACTIVE
                   /\ buf[r].attempts < MAX_PROCESSING_ATTEMPTS
                   /\ buf[r].originalFilename # NoName
                   /\ buf[r].fileUrl # 0)
    IN [i \in 1..Len(sel) |->
           [rowIndex |-> sel[i],
            fileUrl |-> buf[sel[i]].fileUrl,
            originalFilename |-> buf[sel[i]].originalFilename,
            changedFilename |-> buf[sel[i]].changedFilename,
            invoiceNumber |-> buf[sel[i]].invoiceNumber,
            reason |-> buf[sel[i]].reason]]

\* reason includes 'reactivated on' or 'deleted:' (case-insensitively).
isFileReactivated(fileData) ==
    \E i \in 1..Len(fileData.reason) :
        fileData.reason[i] \in {"Reactivated on", "Deleted:"}

\* Variant: no row counts as having AI data.
hasExistingAIData_Never(fileData) == FALSE

hasExistingAIData(fileData) ==
    /\ fileData.changedFilename # NoName
    /\ fileData.changedFilename # fileData.originalFilename
    /\ fileData.invoiceNumber # <<>>

\* The defaults, overridden by what the changed file name parses to.
restoreExistingAIData(fileData) ==
    LET parsedData == parseFilenameForAIData(fileData.changedFilename)
        defaults == [date |-> "",
                     vendorName |-> <<>>,
                     invoiceNumber |-> fileData.invoiceNumber,
                     amount |-> "",
                     documentType |-> "invoice",
                     transactionType |-> INFLOW,
                     confidence |-> Num(80),
                     newFilename |-> fileData.changedFilename]
    IN IF parsedData = NoParse THEN defaults
       ELSE [defaults EXCEPT !.date = parsedData.date,
                             !.vendorName = parsedData.vendorName,
                             !.invoiceNumber = parsedData.invoiceNumber,
                             !.amount = parsedData.amount]

\* callGeminiAPI's confidence: parsedData.confidence || 0.8
geminiConfidence(parsedData) ==
    IF falsy(parsedData.confidence) THEN Num(80) ELSE parsedData.confidence

\* The data processFileWithAI returns for the answer of the AI service:
\* { ...validatedData, newFilename, confidence: aiResponse.confidence || 0.8 }
enrichedData(parsedData, originalFilename, timeZone) ==
    LET v == validateAndCleanAIResponse(parsedData, timeZone)
    IN [date |-> v.date,
        vendorName |-> v.vendorName,
        invoiceNumber |-> v.invoiceNumber,
        amount |-> v.amount,
        documentType |-> v.documentType,
        transactionType |-> v.transactionType,
        confidence |-> geminiConfidence(parsedData),
        newFilename |-> generateFilenameFromAIData(v, originalFilename)]

\* The data of a successful processFileWithAI, by file and original name.
freshAIDataOfRow ==
    [r \in 1..(NumRows + NumRowsConcurrent) |->
        [originalFilename \in OriginalFilenames |->
            enrichedData(aiResponse(r), originalFilename, "Etc/UTC")]]

freshAIData(fileData) == freshAIDataOfRow[fileData.fileUrl][fileData.originalFilename]

\* The whole of updateBufferSheetWithAI when nothing else writes the row:
\* Changed File Name and Invoice Number are written when truthy; the
\* attempts cell is read back from the sheet and written incremented.
updateBufferSheetWithAI(buf, fileData, aiData) ==
    LET r == fileData.rowIndex
    IN [buf EXCEPT
          ![r].changedFilename =
              IF aiData.newFilename # NoName THEN aiData.newFilename ELSE @,
          ![r].invoiceNumber =
              IF aiData.invoiceNumber # <<>> THEN aiData.invoiceNumber ELSE @,
          ![r].attempts = @ + 1]

\* The whole of markFileAsFailed when nothing else writes the row.
markFileAsFailed(buf, fileData, errorMessage) ==
    LET r == fileData.rowIndex
    IN [buf EXCEPT
          ![r].status = FAILED,
          ![r].reason = <<"AI Processing Failed:", errorMessage, TS>>,
          ![r].attempts = @ + 1]

isDuplicateInFinalSheet(finalSheet, fileUrl) == hasUrl(finalSheet, fileUrl)

\* The Final row of a processed file.
finalRow(fileData, aiData) ==
    [fileName |-> IF aiData.newFilename # NoName THEN aiData.newFilename
                  ELSE fileData.originalFilename,
     fileUrl |-> fileData.fileUrl,
     inflowOutflowStatus |-> aiData.transactionType,
     date |-> aiData.date,
     vendorName |-> aiData.vendorName,
     invoiceNumber |-> aiData.invoiceNumber,
     amount |-> aiData.amount,
     documentType |-> aiData.documentType,
     confidence |-> aiData.confidence]

addToFinalSheet(finalSheet, fileData, aiData) ==
    appendRow(finalSheet, finalRow(fileData, aiData))

\* ------------------------------------------- SheetManager: buffer changes
\* Variant: every row marked Deleted, whatever its reason.
getFilesMarkedForDeletion_AnyReason(buf) ==
    LET sel == SelectSeq(BufferRows(buf), LAMBDA r : buf[r].status = DELETED)
    IN [i \in 1..Len(sel) |->
           [rowIndex |-> sel[i],
            fileUrl |-> buf[sel[i]].fileUrl,
            reason |-> buf[sel[i]].reason]]

\* Rows marked Deleted whose reason does not yet start with 'Deleted:'.
getFilesMarkedForDeletion(buf) ==
    LET sel == SelectSeq(BufferRows(buf), LAMBDA r :
                   buf[r].status = DELETED
                   /\ ~startsWith(buf[r].reason, "Deleted:"))
    IN [i \in 1..Len(sel) |->
           [rowIndex |-> sel[i],
            fileUrl |-> buf[sel[i]].fileUrl,
            reason |-> buf[sel[i]].reason]]

\* Variant: rows marked Active whose reason mentions 'Deleted:' anywhere.
getFilesMarkedForReactivation_Includes(buf) ==
    LET sel == SelectSeq(BufferRows(buf), LAMBDA r :
                   buf[r].status = ACTIVE
                   /\ \E i \in 1..Len(buf[r].reason) : buf[r].reason[i] = "Deleted:")
    IN [i \in 1..Len(sel) |->
           [rowIndex |-> sel[i],
            fileUrl |-> buf[sel[i]].fileUrl,
            originalFilename |-> buf[sel[i]].originalFilename,
            changedFilename |-> buf[sel[i]].changedFilename,
            invoiceNumber |-> buf[sel[i]].invoiceNumber,
            previousReason |-> buf[sel[i]].reason]]

\* Rows marked Active whose reason still starts with 'Deleted:'.
getFilesMarkedForReactivation(buf) ==
    LET sel == SelectSeq(BufferRows(buf), LAMBDA r :
                   buf[r].status = ACTIVE
                   /\ startsWith(buf[r].reason, "Deleted:"))
    IN [i \in 1..Len(sel) |->
           [rowIndex |-> sel[i],
            fileUrl |-> buf[sel[i]].fileUrl,
            originalFilename |-> buf[sel[i]].originalFilename,
            changedFilename |-> buf[sel[i]].changedFilename,
            invoiceNumber |-> buf[sel[i]].invoiceNumber,
            previousReason |-> buf[sel[i]].reason]]

\* Some deletion request has an empty or whitespace-only reason:
\* !item.reason || item.reason.trim() === ''
missingReasons(items) == \E i \in 1..Len(items) : trim(items[i].reason) = <<>>

\* Status Deleted, reason `Deleted: ${reason} (${timestamp})`.
updateBufferSheetForDeletion(buf, rowIndex, reason) ==
    [buf EXCEPT ![rowIndex].status = DELETED,
                ![rowIndex].reason = <<"Deleted:">> \o reason \o <<TS>>]

\* Status Active, reason `Reactivated on ${timestamp}. Previous: ${the cell}`,
\* attempts '0'.
updateBufferSheetForReactivation(buf, rowIndex) ==
    [buf EXCEPT ![rowIndex].status = ACTIVE,
                ![rowIndex].reason = <<"Reactivated on", TS, "Previous:">> \o @,
                ![rowIndex].attempts = 0]

\* folder.addFile(file)
addFile(folder, file) == [file EXCEPT !.parents = @ \cup {folder}]

\* folder.removeFile(file)
removeFile(folder, file) == [file EXCEPT !.parents = @ \ {folder}]

\* The parents ensureFileInBufferFolder takes the file out of: the ones of
\* file.getParents() that are not the Buffer folder and are named Inflow or
\* Outflow.
otherParents(file) == file.parents \cap {"Inflow", "Outflow"}

hasValidAIData(reactivationItem) ==
    /\ reactivationItem.changedFilename # NoName
    /\ reactivationItem.changedFilename # reactivationItem.originalFilename
    /\ reactivationItem.invoiceNumber # <<>>

\* The Final row restoreToFinalSheet builds from the changed file name.
restoredRow(reactivationItem) ==
    LET hasName == /\ reactivationItem.changedFilename # NoName
                   /\ reactivationItem.changedFilename # reactivationItem.originalFilename
        parsedData == IF hasName
                      THEN parseFilenameForAIData(reactivationItem.changedFilename)
                      ELSE NoParse
        aiData == [date |-> "",
                   vendorName |-> <<>>,
                   invoiceNumber |-> reactivationItem.invoiceNumber,
                   amount |-> "",
                   transactionType |-> INFLOW]
        merged == IF parsedData = NoParse THEN aiData
                  ELSE [aiData EXCEPT !.date = parsedData.date,
                                      !.vendorName = parsedData.vendorName,
                                      !.invoiceNumber = parsedData.invoiceNumber,
                                      !.amount = parsedData.amount]
    IN [fileName |-> IF reactivationItem.changedFilename # NoName
                     THEN reactivationItem.changedFilename
                     ELSE reactivationItem.originalFilename,
        fileUrl |-> reactivationItem.fileUrl,
        inflowOutflowStatus |-> merged.transactionType,
        date |-> merged.date,
        vendorName |-> merged.vendorName,
        invoiceNumber |-> merged.invoiceNumber,
        amount |-> merged.amount,
        documentType |-> "restored",
        confidence |-> Num(80)]

restoreToFinalSheet(finalSheet, reactivationItem) ==
    appendRow(finalSheet, restoredRow(reactivationItem))

\* ------------------------------------------- SheetManager: categorization
\* The rows of the Final sheet with a file name, a URL and a status; the
\* empty File URL cell is 0.
getFinalSheetData(finalSheet) ==
    SelectSeq(finalSheet, LAMBDA row :
        row.fileName # NoName /\ row.fileUrl # 0 /\ row.inflowOutflowStatus # "")

\* The Inflow/Outflow row of a Final row (the status column is dropped).
flowRow(fileData) ==
    [fileName |-> fileData.fileName,
     fileUrl |-> fileData.fileUrl,
     date |-> fileData.date,
     vendorName |-> fileData.vendorName,
     invoiceNumber |-> fileData.invoiceNumber,
     amount |-> fileData.amount,
     documentType |-> fileData.documentType]

addToInflowSheet(inflowSheet, fileData) == appendRow(inflowSheet, flowRow(fileData))

addToOutflowSheet(outflowSheet, fileData) == appendRow(outflowSheet, flowRow(fileData))

\* finalSheet.getLastRow(): the header row and the data rows.
getLastRow(sheet) == Len(sheet) + 1

\* Sheet.deleteRows(rowPosition, howMany): the sheet rows rowPosition to
\* rowPosition + howMany - 1 go and the rows below them move up; row 1 is
\* the header, so data row i is sheet row i + 1.  Below the last data row
\* it deletes empty rows.
deleteRows(sheet, rowPosition, howMany) ==
    SubSeq(sheet, 1, rowPosition - 2)
        \o SubSeq(sheet, rowPosition - 1 + howMany, Len(sheet))

\* clearFinalSheet, after lastRow = finalSheet.getLastRow():
\* if (lastRow > 1) finalSheet.deleteRows(2, lastRow - 1).
clearFinalSheet(finalSheet, lastRow) ==
    IF lastRow > 1 THEN deleteRows(finalSheet, 2, lastRow - 1) ELSE finalSheet

\* ------------------------------------------------------------ script lock
\* LockService.getScriptLock(): one lock for the whole script.  tryLock
\* succeeds for the invocation that already has it; releaseLock gives it up
\* however many times it was taken, and does nothing for another's lock.
canLock(l, p) == l = 0 \/ l = p

tryLock(l, p) == IF canLock(l, p) THEN p ELSE l

releaseLock(l, p) == IF l = p THEN 0 ELSE l

\* Variant: getAllClients without its finally block; the lock it took stays
\* with the execution.
getAllClients_NoFinally(l, p) == tryLock(l, p)

\* getAllClients: tryLock(5000), read the master sheet, finally releaseLock.
getAllClients(l, p) == releaseLock(tryLock(l, p), p)

\* ------------------------------------------------------------------ Init
\* The locals of the function an invocation is in: currentAttempts and
\* currentReason (the cell read before it is written), the message of the
\* error markFileAsFailed is called with, in removeFromSheet the sheet and
\* the rows of the read that are still to delete, and in clearFinalSheet
\* the last row it has read.
NoFrame ==
    [currentAttempts |-> 0, currentReason |-> <<>>, errorMessage |-> "",
     sheet |-> "", rows |-> <<>>, allParents |-> {}, lastRow |-> 0]

\* A field the updates of updateClient do not have.
undefined == "undefined"

\* updateClient is not running; result is what its last call handed back.
NoUpdate ==
    [pc |-> "idle", name |-> "", row |-> 0, status |-> undefined,
     gmailLabel |-> undefined, result |-> "none"]

\* processAllClientsWithAI is not running and has not run.
NoRun ==
    [ran |-> FALSE, clients |-> <<>>, pending |-> <<>>, pc |-> "idle",
     successCount |-> 0, failureCount |-> 0, error |-> "none"]

\* The spreadsheet of the first client and the folder that holds it; it is
\* not in My Drive.
OneSpreadsheet == [id |-> 2, folder |-> 1, root |-> FALSE]

\* processFileWithAI has not returned.
NoData == [none |-> TRUE]
NoAIResult == [success |-> FALSE, error |-> "none", data |-> NoData]

\* addClientWithAtomicTransaction is not running: createdResources is
\* { rootFolder: null, spreadsheet: null, masterSheetRow: null }.
NoCreation ==
    [pc |-> "idle", name |-> "", gmailLabel |-> "",
     rootFolder |-> 0, spreadsheet |-> 0, masterSheetRow |-> 0,
     spreadsheetFile |-> 0, made |-> {}, error |-> "none"]

\* The other sheets, Drive, the lock and the invocations.
StartedAround(n, e) ==
    /\ inflow = <<>>
    /\ outflow = <<>>
    /\ drive = [r \in 1..n |-> [exists |-> TRUE, parents |-> {"Buffer"}]]
    /\ lock = 0
    /\ pc = [p \in Procs |-> "idle"]
    /\ activeFiles = [p \in Procs |-> <<>>]
    /\ deletionData = [p \in Procs |-> <<>>]
    /\ reactivationData = [p \in Procs |-> <<>>]
    /\ finalSheetData = [p \in Procs |-> <<>>]
    /\ errorCount = [p \in Procs |-> 0]
    /\ result = [p \in Procs |-> [op |-> "none", status |-> "none", errorCount |-> 0]]
    /\ external = e
    /\ passes = 0
    /\ failedRows = [p \in Procs |-> <<>>]
    /\ frame = [p \in Procs |-> NoFrame]

\* The sheets after the Buffer sheet, Drive, the lock and the invocations.
StartedRest(n, e) ==
    /\ final = <<>>
    /\ enriched = [r \in 1..n |-> FALSE]
    /\ StartedAround(n, e)

\* The ingestion has added the files with these names to the Buffer sheet
\* and to the Buffer folder; nothing has run yet.
Started(originalFilenames, e) ==
    /\ buffer = [r \in DOMAIN originalFilenames |->
                   [fileUrl |-> r, status |-> ACTIVE, reason |-> <<>>,
                    originalFilename |-> originalFilenames[r],
                    changedFilename |-> NoName,
                    invoiceNumber |-> <<>>, attempts |-> 0]]
    /\ StartedRest(Len(originalFilenames), e)

\* n files named scan.pdf.
Start(n, e) == Started([r \in 1..n |-> ScanPdf], e)

\* The Buffer sheet after the ingestion.
ingested(n) ==
    [r \in 1..n |-> [fileUrl |-> r, status |-> ACTIVE, reason |-> <<>>,
                     originalFilename |-> ScanPdf, changedFilename |-> NoName,
                     invoiceNumber |-> <<>>, attempts |-> 0]]

\* One pass of processClientDocumentsWithAI has enriched the n files and has
\* returned: each Buffer row has its data and one attempt, and the Final
\* sheet has a row of each file.
Enriched(n, e) ==
    LET activeFiles0 == getActiveFilesFromBuffer(ingested(n))
    IN /\ buffer = [r \in 1..n |->
                       updateBufferSheetWithAI(ingested(n), activeFiles0[r],
                                               freshAIData(activeFiles0[r]))[r]]
       /\ final = [r \in 1..n |-> finalRow(activeFiles0[r], freshAIData(activeFiles0[r]))]
       /\ enriched = [r \in 1..n |-> TRUE]
       /\ StartedAround(n, e)

\* One pass of processClientDocumentsWithAI has enriched the first file and
\* has returned, and the ingestion has then added a second file: the Final
\* sheet has the row of the first file.
EnrichedThenIngested(e) ==
    LET activeFiles0 == getActiveFilesFromBuffer(ingested(1))
        aiData == freshAIData(activeFiles0[1])
    IN /\ buffer = <<updateBufferSheetWithAI(ingested(1), activeFiles0[1], aiData)[1],
                     ingested(2)[2]>>
       /\ final = <<finalRow(activeFiles0[1], aiData)>>
       /\ enriched = <<TRUE, FALSE>>
       /\ StartedAround(2, e)

\* No processFileWithAI call is being followed: a supported file of a few
\* bytes, the API key configured.
NoJob ==
    /\ job = [size |-> 1024, mimeType |-> <<"application/pdf">>, apiKey |-> TRUE,
              maxRetries |-> MAX_RETRIES, response |-> aiResponse(1),
              timeZone |-> "Etc/UTC"]
    /\ jobPc = "none"
    /\ attempt = 0
    /\ lastError = "undefined"
    /\ invocations = 0
    /\ sleeps = <<>>
    /\ aiResult = NoAIResult

\* The master sheet holds the one client whose documents are processed;
\* Drive has its spreadsheet and these folders.
OneClientWith(folders) ==
    /\ master = <<[name |-> "acme", gmailLabel |-> "clients/acme",
                   rootFolderId |-> 1, spreadsheetId |-> 2, status |-> ACTIVE,
                   createdAt |-> 0, lastModified |-> 0]>>
    /\ cloud = [folders |-> folders,
                spreadsheets |-> {OneSpreadsheet}, trash |-> {}, nextId |-> 3]
    /\ creation = NoCreation
    /\ waiting = NoCreation
    /\ lastRun = NoRun
    /\ now = 1
    /\ update = NoUpdate

\* The root folder of the client is in Drive.
OneClient == OneClientWith({OneSpreadsheet.folder})

\* The root folder of the client has been removed from Drive, or the
\* account of the script has lost the access to it: getFolderById throws.
OneClientWithoutFolder == OneClientWith({})

\* Concurrent invocations.  They start after the first pass over the
\* files, so that every handler has rows to work on; the root folder of the
\* client is in Drive or is not.
Init ==
    /\ Enriched(NumRowsConcurrent, MaxExternal)
    /\ quota = MaxInvocations
    /\ NoJob
    /\ OneClient \/ OneClientWithoutFolder

\* One invocation at a time, from the ingestion on; without the root
\* folder of the client also from the first pass on.
InitSeq ==
    /\ \/ Start(NumRows, MaxExternalSeq) /\ OneClient
       \/ Start(NumRows, MaxExternalSeq) /\ OneClientWithoutFolder
       \/ Enriched(NumRows, MaxExternalSeq) /\ OneClientWithoutFolder
    /\ quota = MaxInvocationsSeq
    /\ NoJob

\* ------------------------------------------------------ invocation results
\* An execution of a handler starts.
Starts ==
    /\ quota > 0
    /\ quota' = quota - 1
    /\ UNCHANGED <<passes, failedRows, waiting>>

\* What an invocation hands back: { success: true, errorCount } or a thrown
\* error with its code; NoResult while it has not ended.
NoResult == [op |-> "none", status |-> "none", errorCount |-> 0]

Success(op, errors) == [op |-> op, status |-> "success", errorCount |-> errors]

Thrown(op, code) == [op |-> op, status |-> code, errorCount |-> 0]

\* The invocation goes on at another statement.
Goto(p, position) == pc' = [pc EXCEPT ![p] = position]

\* The invocation ends: its result is set and its error counter is dropped.
Ends(p, res) ==
    /\ pc' = [pc EXCEPT ![p] = "done"]
    /\ result' = [result EXCEPT ![p] = res]
    /\ errorCount' = [errorCount EXCEPT ![p] = 0]

\* The caller has the result; the execution is over.
Return(p) ==
    /\ pc[p] = "done"
    /\ pc' = [pc EXCEPT ![p] = "idle"]
    /\ result' = [result EXCEPT ![p] = NoResult]
    /\ UNCHANGED <<sheets, lock, locals, enriched, external>>
    /\ UNCHANGED <<jobVars, tenantVars, passVars>>

\* ------------------------------------------------------------ cell writes
\* A row below the last row of the Buffer sheet: every cell is empty.
EmptyBufferRow ==
    [fileUrl |-> 0, status |-> "", reason |-> <<>>, originalFilename |-> NoName,
     changedFilename |-> NoName, invoiceNumber |-> <<>>, attempts |-> 0]

\* The cells getRange(rowIndex, ...) reads.
rowAt(buf, rowIndex) == IF rowIndex \in DOMAIN buf THEN buf[rowIndex] ELSE EmptyBufferRow

\* range.setValue on one cell of a Buffer row.
setValue(buf, rowIndex, column, value) ==
    LET lastRow == IF rowIndex > Len(buf) THEN rowIndex ELSE Len(buf)
        padded == [i \in 1..lastRow |-> rowAt(buf, i)]
    IN [padded EXCEPT ![rowIndex][column] = value]

setStatus(buf, rowIndex, status) == setValue(buf, rowIndex, "status", status)

setReason(buf, rowIndex, reason) == setValue(buf, rowIndex, "reason", reason)

setAttempts(buf, rowIndex, attempts) == setValue(buf, rowIndex, "attempts", attempts)

setChangedFilename(buf, rowIndex, filename) ==
    setValue(buf, rowIndex, "changedFilename", filename)

setInvoiceNumber(buf, rowIndex, invoiceNumber) ==
    setValue(buf, rowIndex, "invoiceNumber", invoiceNumber)

\* Sheet.deleteRow; below the last data row it deletes an empty row.
deleteRow(m, row) ==
    IF row > Len(m) THEN m
    ELSE [i \in 1..(Len(m) - 1) |-> IF i < row THEN m[i] ELSE m[i + 1]]

\* ------------------------------------------- validateClientConfiguration
\* The client whose spreadsheet holds the Buffer, Final, Inflow and Outflow
\* sheets of the model: the one of OneClient.
holdsDocuments(c) == c.spreadsheetId = OneSpreadsheet.id

\* ClientConfig.validate(): DriveApp.getFolderById(rootFolderId) and
\* SpreadsheetApp.openById(spreadsheetId) both find their resource; Drive
\* finds by id what is in the trash as well.
accessible(c) ==
    /\ c.rootFolderId \in cloud.folders \cup cloud.trash
    /\ \/ \E f \in cloud.spreadsheets : f.id = c.spreadsheetId
       \/ c.spreadsheetId \in cloud.trash

\* The row of the master sheet the handlers of the documents work on.
client == master[CHOOSE i \in DOMAIN master : holdsDocuments(master[i])]

\* validateClientConfiguration(client.name).isValid: getClientByName finds
\* the client again (getAllClients takes the lock for the read; a timeout
\* is caught and makes the result invalid), client.validate() reaches the
\* root folder and the spreadsheet, and getClientFolderStructure and the
\* four getSheetByName calls find the folders below the root folder and
\* the sheets of the spreadsheet, which are there as long as the root
\* folder and the spreadsheet are.
validateClientConfiguration(l, p) == canLock(l, p) /\ accessible(client)

\* ------------------------------------------- processClientDocumentsWithAI
\* Every step below is one call of the platform (a read or a write of a
\* sheet, a call of Drive, a call of the lock service) with the statements
\* of the script around it; another execution, or the operator, may act
\* between any two of them.
\*
\* getClientByName finds the client (getAllClients takes and releases the
\* lock).
AIGetClient(p) ==
    /\ pc[p] = "idle"
    /\ canLock(lock, p)
    /\ lock' = getAllClients(lock, p)
    /\ Goto(p, "ai_validate")
    /\ UNCHANGED <<sheets, locals, result, enriched, external>>
    /\ Starts
    /\ UNCHANGED <<jobVars, tenantVars>>

\* The client name is not in the master sheet: INVALID_INPUT.
AIClientNotFound(p) ==
    /\ pc[p] = "idle"
    /\ canLock(lock, p)
    /\ lock' = getAllClients(lock, p)
    /\ Ends(p, Thrown(AI_PASS, "INVALID_INPUT"))
    /\ UNCHANGED <<sheets, activeFiles, deletionData, reactivationData,
                   finalSheetData, frame, enriched, external>>
    /\ Starts
    /\ UNCHANGED <<jobVars, tenantVars>>

\* getAllClients cannot take the lock within 5 s: the pass throws.
AILockTimeout(p) ==
    /\ pc[p] = "idle"
    /\ ~canLock(lock, p)
    /\ lock' = getAllClients(lock, p)
    /\ Ends(p, Thrown(AI_PASS, "SYSTEM_ERROR"))
    /\ UNCHANGED <<sheets, activeFiles, deletionData, reactivationData,
                   finalSheetData, frame, enriched, external>>
    /\ Starts
    /\ UNCHANGED <<jobVars, tenantVars>>

\* validateClientConfiguration looks the client up again, through
\* getAllClients, and finds the configuration valid.
AIValidate(p) ==
    /\ pc[p] = "ai_validate"
    /\ validateClientConfiguration(lock, p)
    /\ lock' = getAllClients(lock, p)
    /\ Goto(p, "ai_read")
    /\ UNCHANGED <<sheets, locals, result, enriched, external>>
    /\ UNCHANGED <<jobVars, tenantVars, passVars>>

\* The lookup of validateClientConfiguration cannot take the lock, or the
\* root folder of the client is not to be found: the validation is invalid
\* and INVALID_INPUT is thrown.
AIValidateFails(p) ==
    /\ pc[p] = "ai_validate"
    /\ ~validateClientConfiguration(lock, p)
    /\ lock' = getAllClients(lock, p)
    /\ Ends(p, Thrown(AI_PASS, "INVALID_INPUT"))
    /\ UNCHANGED <<sheets, activeFiles, deletionData, reactivationData,
                   finalSheetData, frame, enriched, external>>
    /\ UNCHANGED <<jobVars, tenantVars, passVars>>

\* getActiveFilesFromBuffer reads the Buffer sheet; without a file the pass
\* returns.
AIRead(p) ==
    /\ pc[p] = "ai_read"
    /\ activeFiles' = [activeFiles EXCEPT ![p] = getActiveFilesFromBuffer(buffer)]
    /\ IF activeFiles'[p] = <<>>
       THEN Ends(p, Success(AI_PASS, 0))
       ELSE /\ Goto(p, "ai_file")
            /\ UNCHANGED <<result, errorCount>>
    /\ UNCHANGED <<sheets, lock, deletionData, reactivationData, finalSheetData,
                   frame, enriched, external>>
    /\ UNCHANGED <<jobVars, tenantVars, passVars>>

\* Variant: the first failed file ends the pass with an error and the
\* remaining files are dropped.
AINext_Abort(p, errors) ==
    /\ activeFiles' = [activeFiles EXCEPT ![p] = IF errors > errorCount[p] THEN <<>> ELSE Tail(@)]
    /\ IF errors > errorCount[p]
       THEN Ends(p, Thrown(AI_PASS, "SYSTEM_ERROR"))
       ELSE IF Tail(activeFiles[p]) = <<>>
       THEN Ends(p, Success(AI_PASS, errors))
       ELSE /\ errorCount' = [errorCount EXCEPT ![p] = errors]
            /\ Goto(p, "ai_file")
            /\ UNCHANGED result
    /\ frame' = [frame EXCEPT ![p] = NoFrame]
    /\ UNCHANGED <<inflow, outflow, drive, lock, deletionData, reactivationData,
                   finalSheetData, external>>
    /\ UNCHANGED <<jobVars, tenantVars, passVars>>

\* The loop moves to the next file with its error count, or the pass ends
\* with success: true.
AINext(p, errors) ==
    /\ activeFiles' = [activeFiles EXCEPT ![p] = Tail(@)]
    /\ IF Tail(activeFiles[p]) = <<>>
       THEN Ends(p, Success(AI_PASS, errors))
       ELSE /\ errorCount' = [errorCount EXCEPT ![p] = errors]
            /\ Goto(p, "ai_file")
            /\ UNCHANGED result
    /\ frame' = [frame EXCEPT ![p] = NoFrame]
    /\ UNCHANGED <<inflow, outflow, drive, lock, deletionData, reactivationData,
                   finalSheetData, external>>
    /\ UNCHANGED <<jobVars, tenantVars, passVars>>

\* The statement of the loop goes on inside the handling of the same file.
AIGoesOn(p, position) ==
    /\ Goto(p, position)
    /\ UNCHANGED <<lock, activeFiles, deletionData, reactivationData,
                   finalSheetData, errorCount, result, external>>
    /\ UNCHANGED <<jobVars, tenantVars, passVars>>

\* isReactivated && hasExistingAIData(fileData)
restores(fileData) == isFileReactivated(fileData) /\ hasExistingAIData(fileData)

\* aiResult.data of a successful result: the restored data, or the data of
\* processFileWithAI.
aiDataOf(fileData) ==
    IF restores(fileData) THEN restoreExistingAIData(fileData)
    ELSE freshAIData(fileData)

\* A reactivated file with AI data: the data is restored, no AI call.
AIRestore(p) ==
    /\ pc[p] = "ai_file"
    /\ restores(Head(activeFiles[p]))
    /\ AIGoesOn(p, "ai_name")
    /\ UNCHANGED <<sheets, frame, enriched>>

\* processFileWithAI reaches callGeminiAPI: the file is in Drive.
AICall(p) ==
    /\ pc[p] = "ai_file"
    /\ ~restores(Head(activeFiles[p]))
    /\ fileOf(Head(activeFiles[p]).fileUrl).exists

\* The AI service answers and the answer is usable: processFileWithAI
\* returns success with the data.
AIFreshSuccess(p) ==
    /\ AICall(p)
    /\ AIGoesOn(p, "ai_name")
    /\ UNCHANGED <<sheets, frame, enriched>>

\* The AI service fails, or its answer is unusable: processFileWithAI
\* returns the error.
AIFreshFailure(p) ==
    /\ AICall(p)
    /\ frame' = [frame EXCEPT ![p].errorMessage = "AI error"]
    /\ AIGoesOn(p, "fail_status")
    /\ UNCHANGED <<sheets, enriched>>

\* DriveApp.getFileById throws: FILE_NOT_FOUND, no AI call.
AIFileNotFound(p) ==
    /\ pc[p] = "ai_file"
    /\ ~restores(Head(activeFiles[p]))
    /\ ~fileOf(Head(activeFiles[p]).fileUrl).exists
    /\ frame' = [frame EXCEPT ![p].errorMessage = "File not found in Drive"]
    /\ AIGoesOn(p, "fail_status")
    /\ UNCHANGED <<sheets, enriched>>

\* updateBufferSheetWithAI: Changed File Name is written when truthy.
AIWriteChangedFilename(p) ==
    /\ pc[p] = "ai_name"
    /\ LET fileData == Head(activeFiles[p])
           aiData == aiDataOf(fileData)
       IN buffer' = IF aiData.newFilename # NoName
                    THEN setChangedFilename(buffer, fileData.rowIndex, aiData.newFilename)
                    ELSE buffer
    /\ AIGoesOn(p, "ai_invoice")
    /\ UNCHANGED <<final, inflow, outflow, drive, frame, enriched>>

\* updateBufferSheetWithAI: Invoice Number is written when truthy.
AIWriteInvoiceNumber(p) ==
    /\ pc[p] = "ai_invoice"
    /\ LET fileData == Head(activeFiles[p])
           aiData == aiDataOf(fileData)
       IN buffer' = IF aiData.invoiceNumber # <<>>
                    THEN setInvoiceNumber(buffer, fileData.rowIndex, aiData.invoiceNumber)
                    ELSE buffer
    /\ AIGoesOn(p, "ai_attempts")
    /\ UNCHANGED <<final, inflow, outflow, drive, frame, enriched>>

\* updateBufferSheetWithAI: currentAttempts = parseInt(getValue()) || 0
AIReadAttempts(p) ==
    /\ pc[p] = "ai_attempts"
    /\ frame' = [frame EXCEPT ![p].currentAttempts =
                     rowAt(buffer, Head(activeFiles[p]).rowIndex).attempts]
    /\ AIGoesOn(p, "ai_attempts_write")
    /\ UNCHANGED <<sheets, enriched>>

\* updateBufferSheetWithAI: setValue(currentAttempts + 1)
AIWriteAttempts(p) ==
    /\ pc[p] = "ai_attempts_write"
    /\ buffer' = setAttempts(buffer, Head(activeFiles[p]).rowIndex,
                             frame[p].currentAttempts + 1)
    /\ frame' = [frame EXCEPT ![p] = NoFrame]
    /\ AIGoesOn(p, "ai_duplicate")
    /\ UNCHANGED <<final, inflow, outflow, drive, enriched>>

\* isDuplicateInFinalSheet reads the Final sheet and finds a row of the URL:
\* nothing is added and the file is done.
AIDuplicate(p) ==
    /\ pc[p] = "ai_duplicate"
    /\ isDuplicateInFinalSheet(final, Head(activeFiles[p]).fileUrl)
    /\ enriched' = [enriched EXCEPT ![Head(activeFiles[p]).fileUrl] = TRUE]
    /\ UNCHANGED <<buffer, final>>
    /\ AINext(p, errorCount[p])

\* isDuplicateInFinalSheet reads the Final sheet and finds no row of the URL.
AINoDuplicate(p) ==
    /\ pc[p] = "ai_duplicate"
    /\ ~isDuplicateInFinalSheet(final, Head(activeFiles[p]).fileUrl)
    /\ AIGoesOn(p, "ai_final")
    /\ UNCHANGED <<sheets, frame, enriched>>

\* addToFinalSheet: finalSheet.appendRow, and the file is done.
AIAddToFinalSheet(p) ==
    /\ pc[p] = "ai_final"
    /\ LET fileData == Head(activeFiles[p])
       IN /\ final' = addToFinalSheet(final, fileData, aiDataOf(fileData))
          /\ enriched' = [enriched EXCEPT ![fileData.fileUrl] = TRUE]
    /\ UNCHANGED buffer
    /\ AINext(p, errorCount[p])

\* Variant: the Status cell is not written.
MarkFailedStatus_KeepStatus(p) ==
    /\ pc[p] = "fail_status"
    /\ AIGoesOn(p, "fail_reason")
    /\ UNCHANGED <<sheets, frame, enriched>>

\* markFileAsFailed writes the Status cell.
MarkFailedStatus(p) ==
    /\ pc[p] = "fail_status"
    /\ buffer' = setStatus(buffer, Head(activeFiles[p]).rowIndex, FAILED)
    /\ AIGoesOn(p, "fail_reason")
    /\ UNCHANGED <<final, inflow, outflow, drive, frame, enriched>>

\* markFileAsFailed writes the Reason cell.
MarkFailedReason(p) ==
    /\ pc[p] = "fail_reason"
    /\ buffer' = setReason(buffer, Head(activeFiles[p]).rowIndex,
                           <<"AI Processing Failed:", frame[p].errorMessage, TS>>)
    /\ AIGoesOn(p, "fail_attempts")
    /\ UNCHANGED <<final, inflow, outflow, drive, frame, enriched>>

\* markFileAsFailed: currentAttempts = parseInt(getValue()) || 0
MarkFailedReadAttempts(p) ==
    /\ pc[p] = "fail_attempts"
    /\ frame' = [frame EXCEPT ![p].currentAttempts =
                     rowAt(buffer, Head(activeFiles[p]).rowIndex).attempts]
    /\ AIGoesOn(p, "fail_attempts_write")
    /\ UNCHANGED <<sheets, enriched>>

\* markFileAsFailed: setValue(currentAttempts + 1); the error is counted and
\* the loop goes on with the next file or the pass returns.
MarkFailedWriteAttempts(p) ==
    /\ pc[p] = "fail_attempts_write"
    /\ buffer' = setAttempts(buffer, Head(activeFiles[p]).rowIndex,
                             frame[p].currentAttempts + 1)
    /\ UNCHANGED <<final, enriched>>
    /\ AINext(p, errorCount[p] + 1)

\* --------------------------------------------------- processBufferChanges
\* lock.tryLock(30000)
PBCAcquire(p) ==
    /\ pc[p] = "idle"
    /\ canLock(lock, p)
    /\ lock' = tryLock(lock, p)
    /\ Goto(p, "pbc_client")
    /\ UNCHANGED <<sheets, locals, result, enriched, external>>
    /\ Starts
    /\ UNCHANGED <<jobVars, tenantVars>>

\* Variant: the result of tryLock is not looked at and the batch goes on
\* without the lock.
PBCLockTimeout_GoesOn(p) ==
    /\ pc[p] = "idle"
    /\ ~canLock(lock, p)
    /\ Goto(p, "pbc_client")
    /\ UNCHANGED <<sheets, lock, locals, result, enriched, external>>
    /\ Starts
    /\ UNCHANGED <<jobVars, tenantVars>>

\* tryLock(30000) returns false: SYSTEM_ERROR is thrown; finally releaseLock.
PBCLockTimeout(p) ==
    /\ pc[p] = "idle"
    /\ ~canLock(lock, p)
    /\ lock' = releaseLock(lock, p)
    /\ Ends(p, Thrown(PBC, "SYSTEM_ERROR"))
    /\ UNCHANGED <<sheets, activeFiles, deletionData, reactivationData,
                   finalSheetData, frame, enriched, external>>
    /\ Starts
    /\ UNCHANGED <<jobVars, tenantVars>>

\* getClientByName, through getAllClients.
PBCGetClient(p) ==
    /\ pc[p] = "pbc_client"
    /\ canLock(lock, p)
    /\ lock' = getAllClients(lock, p)
    /\ Goto(p, "pbc_validate")
    /\ UNCHANGED <<sheets, locals, result, enriched, external>>
    /\ UNCHANGED <<jobVars, tenantVars, passVars>>

\* The client name is not in the master sheet: INVALID_INPUT; finally
\* releaseLock.
PBCClientNotFound(p) ==
    /\ pc[p] = "pbc_client"
    /\ canLock(lock, p)
    /\ lock' = releaseLock(getAllClients(lock, p), p)
    /\ Ends(p, Thrown(PBC, "INVALID_INPUT"))
    /\ UNCHANGED <<sheets, activeFiles, deletionData, reactivationData,
                   finalSheetData, frame, enriched, external>>
    /\ UNCHANGED <<jobVars, tenantVars, passVars>>

\* validateClientConfiguration looks the client up again, through
\* getAllClients.
PBCValidate(p) ==
    /\ pc[p] = "pbc_validate"
    /\ validateClientConfiguration(lock, p)
    /\ lock' = getAllClients(lock, p)
    /\ Goto(p, "pbc_deletions")
    /\ UNCHANGED <<sheets, locals, result, enriched, external>>
    /\ UNCHANGED <<jobVars, tenantVars, passVars>>

\* The lookup of validateClientConfiguration cannot take the lock, or the
\* root folder of the client is not to be found: the validation is
\* invalid, INVALID_INPUT is thrown; finally releaseLock.
PBCValidateFails(p) ==
    /\ pc[p] = "pbc_validate"
    /\ ~validateClientConfiguration(lock, p)
    /\ lock' = releaseLock(getAllClients(lock, p), p)
    /\ Ends(p, Thrown(PBC, "INVALID_INPUT"))
    /\ UNCHANGED <<sheets, activeFiles, deletionData, reactivationData,
                   finalSheetData, frame, enriched, external>>
    /\ UNCHANGED <<jobVars, tenantVars, passVars>>

PBCReadDeletions(p) ==
    /\ pc[p] = "pbc_deletions"
    /\ deletionData' = [deletionData EXCEPT ![p] = getFilesMarkedForDeletion(buffer)]
    /\ Goto(p, "pbc_reactivations")
    /\ UNCHANGED <<sheets, lock, activeFiles, reactivationData, finalSheetData,
                   errorCount, frame, result, enriched, external>>
    /\ UNCHANGED <<jobVars, tenantVars, passVars>>

\* The reactivations are read; every deletion has a reason.
PBCReadReactivations(p) ==
    /\ pc[p] = "pbc_reactivations"
    /\ ~missingReasons(deletionData[p])
    /\ reactivationData' =
           [reactivationData EXCEPT ![p] = getFilesMarkedForReactivation(buffer)]
    /\ Goto(p, "pbc_process")
    /\ UNCHANGED <<sheets, lock, activeFiles, deletionData, finalSheetData,
                   errorCount, frame, result, enriched, external>>
    /\ UNCHANGED <<jobVars, tenantVars, passVars>>

\* Variant: the reasons are checked after the deletions that have one were
\* written to the Working sheet.
PBCMissingReasons_AfterDeletions(p) ==
    /\ pc[p] = "pbc_reactivations"
    /\ missingReasons(deletionData[p])
    /\ buffer' = [r \in Rows |->
           IF \E i \in 1..Len(deletionData[p]) :
                 /\ deletionData[p][i].rowIndex = r
                 /\ trim(deletionData[p][i].reason) # <<>>
           THEN updateBufferSheetForDeletion(buffer, r, buffer[r].reason)[r]
           ELSE buffer[r]]
    /\ deletionData' = [deletionData EXCEPT ![p] = <<>>]
    /\ lock' = releaseLock(lock, p)
    /\ Ends(p, Thrown(PBC, "INVALID_INPUT"))
    /\ UNCHANGED <<final, inflow, outflow, drive, activeFiles, reactivationData,
                   finalSheetData, frame, enriched, external>>
    /\ UNCHANGED <<jobVars, tenantVars, passVars>>

\* A deletion without a reason: INVALID_INPUT is thrown before anything is
\* processed; finally releaseLock.
PBCMissingReasons(p) ==
    /\ pc[p] = "pbc_reactivations"
    /\ missingReasons(deletionData[p])
    /\ deletionData' = [deletionData EXCEPT ![p] = <<>>]
    /\ lock' = releaseLock(lock, p)
    /\ Ends(p, Thrown(PBC, "INVALID_INPUT"))
    /\ UNCHANGED <<sheets, activeFiles, reactivationData, finalSheetData,
                   frame, enriched, external>>
    /\ UNCHANGED <<jobVars, tenantVars, passVars>>

\* The batch goes on inside the handling of the same record.
PBCGoesOn(p, position) ==
    /\ Goto(p, position)
    /\ UNCHANGED <<lock, activeFiles, deletionData, reactivationData,
                   finalSheetData, errorCount, result, external>>
    /\ UNCHANGED <<jobVars, tenantVars, passVars>>

\* processFileDeletion is over for the deletion: the batch takes the next
\* record.
DeletionDone(p, errors) ==
    /\ deletionData' = [deletionData EXCEPT ![p] = Tail(@)]
    /\ errorCount' = [errorCount EXCEPT ![p] = errors]
    /\ frame' = [frame EXCEPT ![p] = NoFrame]
    /\ Goto(p, "pbc_process")
    /\ UNCHANGED <<lock, activeFiles, reactivationData, finalSheetData, result,
                   external>>
    /\ UNCHANGED <<jobVars, tenantVars, passVars>>

\* processFileDeletion, step 1: removeFileFromDriveFolders,
\* DriveApp.getFileById finds the file.
DeletionGetFile(p) ==
    /\ pc[p] = "pbc_process"
    /\ deletionData[p] # <<>>
    /\ fileOf(Head(deletionData[p]).fileUrl).exists
    /\ PBCGoesOn(p, "del_inflow")
    /\ UNCHANGED <<sheets, frame, enriched>>

\* removeFileFromDriveFolders, for the Inflow and then for the Outflow
\* folder: folder.getFilesByName finds the file and folder.removeFile takes
\* it out; a call that throws is logged and the loop goes on.
DeletionRemoveFromFolder(p) ==
    /\ pc[p] \in {"del_inflow", "del_outflow"}
    /\ LET r == Head(deletionData[p]).fileUrl
           folder == IF pc[p] = "del_inflow" THEN "Inflow" ELSE "Outflow"
       IN drive' = IF fileOf(r).exists /\ folder \in fileOf(r).parents
                   THEN [drive EXCEPT ![r] = removeFile(folder, @)]
                   ELSE drive
    /\ IF pc[p] = "del_inflow"
       THEN /\ PBCGoesOn(p, "del_outflow")
            /\ UNCHANGED frame
       ELSE /\ frame' = [frame EXCEPT ![p].sheet = "Final"]
            /\ PBCGoesOn(p, "del_read")
    /\ UNCHANGED <<buffer, final, inflow, outflow, enriched>>

\* DriveApp.getFileById throws in step 1: the error is collected and nothing
\* else is done for the deletion.
DeletionFileNotFound(p) ==
    /\ pc[p] = "pbc_process"
    /\ deletionData[p] # <<>>
    /\ ~fileOf(Head(deletionData[p]).fileUrl).exists
    /\ DeletionDone(p, errorCount[p] + 1)
    /\ UNCHANGED <<sheets, enriched>>

\* The sheet removeFromSheet works on, and the one after it.
sheetNamed(sheetName) ==
    CASE sheetName = "Final" -> final
      [] sheetName = "Inflow" -> inflow
      [] sheetName = "Outflow" -> outflow

nextSheet(sheetName) ==
    CASE sheetName = "Final" -> "Inflow"
      [] sheetName = "Inflow" -> "Outflow"
      [] sheetName = "Outflow" -> ""

\* The indexes, bottom to top, of the rows whose File URL cell matches.
matchingRows(sheet, valueToMatch) ==
    LET n == Len(sheet)
        sel == SelectSeq([i \in 1..n |-> n + 1 - i],
                         LAMBDA i : sheet[i].fileUrl = valueToMatch)
    IN sel

\* removeFromSheet is over for the sheet: the next sheet is read, or step 3
\* starts.
afterSheet(p, sheetName) ==
    IF nextSheet(sheetName) = ""
    THEN /\ frame' = [frame EXCEPT ![p].sheet = "", ![p].rows = <<>>]
         /\ PBCGoesOn(p, "del_status")
    ELSE /\ frame' = [frame EXCEPT ![p].sheet = nextSheet(sheetName), ![p].rows = <<>>]
         /\ PBCGoesOn(p, "del_read")

\* processFileDeletion, step 2: removeFromSheet reads the sheet (getLastRow,
\* getValues) and finds the rows to delete.
DeletionReadSheet(p) ==
    /\ pc[p] = "del_read"
    /\ LET rows == matchingRows(sheetNamed(frame[p].sheet),
                                Head(deletionData[p]).fileUrl)
       IN IF rows = <<>>
          THEN afterSheet(p, frame[p].sheet)
          ELSE /\ frame' = [frame EXCEPT ![p].rows = rows]
               /\ PBCGoesOn(p, "del_row")
    /\ UNCHANGED <<sheets, enriched>>

\* removeFromSheet: sheet.deleteRow(i + 1), by the index of the read.
DeletionDeleteRow(p) ==
    /\ pc[p] = "del_row"
    /\ LET row == Head(frame[p].rows)
           sheetName == frame[p].sheet
       IN /\ final' = IF sheetName = "Final" THEN deleteRow(final, row) ELSE final
          /\ inflow' = IF sheetName = "Inflow" THEN deleteRow(inflow, row) ELSE inflow
          /\ outflow' = IF sheetName = "Outflow" THEN deleteRow(outflow, row) ELSE outflow
          /\ IF Tail(frame[p].rows) = <<>>
             THEN afterSheet(p, sheetName)
             ELSE /\ frame' = [frame EXCEPT ![p].rows = Tail(@)]
                  /\ PBCGoesOn(p, "del_row")
    /\ UNCHANGED <<buffer, drive, enriched>>

\* processFileDeletion, step 3: updateBufferSheetForDeletion writes the
\* Status cell.
DeletionStatus(p) ==
    /\ pc[p] = "del_status"
    /\ buffer' = setStatus(buffer, Head(deletionData[p]).rowIndex, DELETED)
    /\ PBCGoesOn(p, "del_reason")
    /\ UNCHANGED <<final, inflow, outflow, drive, frame, enriched>>

\* updateBufferSheetForDeletion writes the Reason cell.
DeletionReason(p) ==
    /\ pc[p] = "del_reason"
    /\ LET deletionItem == Head(deletionData[p])
       IN buffer' = setReason(buffer, deletionItem.rowIndex,
                              <<"Deleted:">> \o deletionItem.reason \o <<TS>>)
    /\ DeletionDone(p, errorCount[p])
    /\ UNCHANGED <<final, inflow, outflow, drive, enriched>>

\* processFileReactivation is over for the reactivation.
ReactivationDone(p, errors) ==
    /\ reactivationData' = [reactivationData EXCEPT ![p] = Tail(@)]
    /\ errorCount' = [errorCount EXCEPT ![p] = errors]
    /\ frame' = [frame EXCEPT ![p] = NoFrame]
    /\ Goto(p, "pbc_process")
    /\ UNCHANGED <<lock, activeFiles, deletionData, finalSheetData, result,
                   external>>
    /\ UNCHANGED <<jobVars, tenantVars, passVars>>

\* The next record of the batch is a reactivation.
nextReactivation(p) ==
    /\ pc[p] = "pbc_process"
    /\ deletionData[p] = <<>>
    /\ reactivationData[p] # <<>>

\* Variant: steps 1 and 2 exchanged, the Working row is rewritten whether or
\* not the file is in Drive.
ReactivationFileNotFound_RowFirst(p) ==
    /\ nextReactivation(p)
    /\ ~fileOf(Head(reactivationData[p]).fileUrl).exists
    /\ buffer' = updateBufferSheetForReactivation(buffer, Head(reactivationData[p]).rowIndex)
    /\ ReactivationDone(p, errorCount[p] + 1)
    /\ UNCHANGED <<final, inflow, outflow, drive, enriched>>

\* DriveApp.getFileById throws in step 1: the error is collected and nothing
\* else is done for the reactivation.
ReactivationFileNotFound(p) ==
    /\ nextReactivation(p)
    /\ ~fileOf(Head(reactivationData[p]).fileUrl).exists
    /\ ReactivationDone(p, errorCount[p] + 1)
    /\ UNCHANGED <<sheets, enriched>>

\* processFileReactivation, step 1: ensureFileInBufferFolder,
\* DriveApp.getFileById finds the file and file.getParents() tells whether
\* it is in the Buffer folder.
ReactivationGetParents(p) ==
    /\ nextReactivation(p)
    /\ fileOf(Head(reactivationData[p]).fileUrl).exists
    /\ PBCGoesOn(p, IF "Buffer" \in fileOf(Head(reactivationData[p]).fileUrl).parents
                    THEN "react_status" ELSE "react_add")
    /\ UNCHANGED <<sheets, frame, enriched>>

\* bufferFolder.addFile(file); the call throws for a file that left Drive
\* and the error is collected.
ReactivationAddFile(p) ==
    /\ pc[p] = "react_add"
    /\ LET r == Head(reactivationData[p]).fileUrl
       IN IF fileOf(r).exists
          THEN /\ drive' = [drive EXCEPT ![r] = addFile("Buffer", @)]
               /\ PBCGoesOn(p, "react_parents")
               /\ UNCHANGED frame
          ELSE /\ ReactivationDone(p, errorCount[p] + 1)
               /\ UNCHANGED drive
    /\ UNCHANGED <<buffer, final, inflow, outflow, enriched>>

\* allParents = file.getParents()
ReactivationReadParents(p) ==
    /\ pc[p] = "react_parents"
    /\ LET r == Head(reactivationData[p]).fileUrl
       IN IF fileOf(r).exists
          THEN /\ frame' = [frame EXCEPT ![p].allParents = otherParents(drive[r])]
               /\ PBCGoesOn(p, IF otherParents(drive[r]) = {}
                               THEN "react_status" ELSE "react_remove")
          ELSE ReactivationDone(p, errorCount[p] + 1)
    /\ UNCHANGED <<sheets, enriched>>

\* parent.removeFile(file), for a parent of allParents named Inflow or
\* Outflow.
ReactivationRemoveFile(p) ==
    /\ pc[p] = "react_remove"
    /\ LET r == Head(reactivationData[p]).fileUrl
       IN IF fileOf(r).exists
          THEN \E parent \in frame[p].allParents :
                  /\ drive' = [drive EXCEPT ![r] = removeFile(parent, @)]
                  /\ frame' = [frame EXCEPT ![p].allParents = @ \ {parent}]
                  /\ PBCGoesOn(p, IF frame[p].allParents = {parent}
                                  THEN "react_status" ELSE "react_remove")
          ELSE /\ ReactivationDone(p, errorCount[p] + 1)
               /\ UNCHANGED drive
    /\ UNCHANGED <<buffer, final, inflow, outflow, enriched>>

\* Step 2: updateBufferSheetForReactivation writes the Status cell.
ReactivationStatus(p) ==
    /\ pc[p] = "react_status"
    /\ buffer' = setStatus(buffer, Head(reactivationData[p]).rowIndex, ACTIVE)
    /\ PBCGoesOn(p, "react_reason")
    /\ UNCHANGED <<final, inflow, outflow, drive, frame, enriched>>

\* currentReason = getValue() of the Reason cell
ReactivationReadReason(p) ==
    /\ pc[p] = "react_reason"
    /\ frame' = [frame EXCEPT ![p].currentReason =
                     rowAt(buffer, Head(reactivationData[p]).rowIndex).reason]
    /\ PBCGoesOn(p, "react_reason_write")
    /\ UNCHANGED <<sheets, enriched>>

\* `Reactivated on ${timestamp}. Previous: ${currentReason}`
reactivationReason(currentReason) ==
    <<"Reactivated on", TS, "Previous:">> \o currentReason

\* The Reason cell is written.
ReactivationWriteReason(p) ==
    /\ pc[p] = "react_reason_write"
    /\ buffer' = setReason(buffer, Head(reactivationData[p]).rowIndex,
                           reactivationReason(frame[p].currentReason))
    /\ PBCGoesOn(p, "react_attempts")
    /\ UNCHANGED <<final, inflow, outflow, drive, frame, enriched>>

\* Variant: the attempts cell is not reset.
ReactivationAttempts_KeepsAttempts(p) ==
    /\ pc[p] = "react_attempts"
    /\ enriched' = [enriched EXCEPT ![Head(reactivationData[p]).fileUrl] = FALSE]
    /\ UNCHANGED <<sheets>>
    /\ IF hasValidAIData(Head(reactivationData[p]))
       THEN /\ PBCGoesOn(p, "react_restore")
            /\ UNCHANGED frame
       ELSE ReactivationDone(p, errorCount[p])

\* The Processing Attempts cell is written '0'; step 3 follows for a record
\* with AI data.
ReactivationAttempts(p) ==
    /\ pc[p] = "react_attempts"
    /\ buffer' = setAttempts(buffer, Head(reactivationData[p]).rowIndex, 0)
    /\ enriched' = [enriched EXCEPT ![Head(reactivationData[p]).fileUrl] = FALSE]
    /\ UNCHANGED <<final, inflow, outflow, drive>>
    /\ IF hasValidAIData(Head(reactivationData[p]))
       THEN /\ PBCGoesOn(p, "react_restore")
            /\ UNCHANGED frame
       ELSE ReactivationDone(p, errorCount[p])

\* Step 3: restoreToFinalSheet appends the row built from the changed name.
ReactivationRestore(p) ==
    /\ pc[p] = "react_restore"
    /\ final' = restoreToFinalSheet(final, Head(reactivationData[p]))
    /\ ReactivationDone(p, errorCount[p])
    /\ UNCHANGED <<buffer, inflow, outflow, drive, enriched>>

\* return { success: true, errorCount }; finally lock.releaseLock()
PBCFinish(p) ==
    /\ pc[p] = "pbc_process"
    /\ deletionData[p] = <<>>
    /\ reactivationData[p] = <<>>
    /\ lock' = releaseLock(lock, p)
    /\ Ends(p, Success(PBC, errorCount[p]))
    /\ UNCHANGED <<sheets, activeFiles, deletionData, reactivationData,
                   finalSheetData, frame, enriched, external>>
    /\ UNCHANGED <<jobVars, tenantVars, passVars>>

\* ----------------------------------------------- moveFilesToInflowOutflow
MoveAcquire(p) ==
    /\ pc[p] = "idle"
    /\ Len(inflow) + Len(outflow) < MaxFlowRows
    /\ canLock(lock, p)
    /\ lock' = tryLock(lock, p)
    /\ Goto(p, "move_client")
    /\ UNCHANGED <<sheets, locals, result, enriched, external>>
    /\ Starts
    /\ UNCHANGED <<jobVars, tenantVars>>

\* tryLock(30000) returns false: SYSTEM_ERROR is thrown; finally releaseLock.
MoveLockTimeout(p) ==
    /\ pc[p] = "idle"
    /\ ~canLock(lock, p)
    /\ lock' = releaseLock(lock, p)
    /\ Ends(p, Thrown(MOVE, "SYSTEM_ERROR"))
    /\ UNCHANGED <<sheets, activeFiles, deletionData, reactivationData,
                   finalSheetData, frame, enriched, external>>
    /\ Starts
    /\ UNCHANGED <<jobVars, tenantVars>>

MoveGetClient(p) ==
    /\ pc[p] = "move_client"
    /\ canLock(lock, p)
    /\ lock' = getAllClients(lock, p)
    /\ Goto(p, "move_read")
    /\ UNCHANGED <<sheets, locals, result, enriched, external>>
    /\ UNCHANGED <<jobVars, tenantVars, passVars>>

\* The client name is not in the master sheet: INVALID_INPUT; finally
\* releaseLock.
MoveClientNotFound(p) ==
    /\ pc[p] = "move_client"
    /\ canLock(lock, p)
    /\ lock' = releaseLock(getAllClients(lock, p), p)
    /\ Ends(p, Thrown(MOVE, "INVALID_INPUT"))
    /\ UNCHANGED <<sheets, activeFiles, deletionData, reactivationData,
                   finalSheetData, frame, enriched, external>>
    /\ UNCHANGED <<jobVars, tenantVars, passVars>>

\* getFinalSheetData reads the Final sheet; without a row the batch
\* returns, with rows getClientFolderStructure(client) finds the folders of
\* the client.
MoveRead(p) ==
    /\ pc[p] = "move_read"
    /\ getFinalSheetData(final) = <<>> \/ client.rootFolderId \in cloud.folders \cup cloud.trash
    /\ finalSheetData' = [finalSheetData EXCEPT ![p] = getFinalSheetData(final)]
    /\ Goto(p, IF finalSheetData'[p] = <<>> THEN "move_return" ELSE "move_process")
    /\ UNCHANGED <<sheets, lock, activeFiles, deletionData, reactivationData,
                   errorCount, frame, result, enriched, external>>
    /\ UNCHANGED <<jobVars, tenantVars, passVars>>

\* getFinalSheetData has read rows and DriveApp.getFolderById throws in
\* getClientFolderStructure: the batch rethrows the error of Drive before
\* it has moved a row; finally releaseLock.
MoveGetFolderStructureFails(p) ==
    /\ pc[p] = "move_read"
    /\ getFinalSheetData(final) # <<>>
    /\ client.rootFolderId \notin cloud.folders \cup cloud.trash
    /\ lock' = releaseLock(lock, p)
    /\ Ends(p, Thrown(MOVE, "Drive error"))
    /\ UNCHANGED <<sheets, activeFiles, deletionData, reactivationData,
                   finalSheetData, frame, enriched, external>>
    /\ UNCHANGED <<jobVars, tenantVars, passVars>>

\* isInflow = fileData.inflowOutflowStatus.toLowerCase() === INFLOW
isInflow(fileData) == toLowerCase(fileData.inflowOutflowStatus) = INFLOW

\* targetFolder = isInflow ? inflowFolder : outflowFolder
targetFolder(fileData) == IF isInflow(fileData) THEN "Inflow" ELSE "Outflow"

\* The row is appended to the Inflow or to the Outflow sheet.
MoveAddToSheet(p) ==
    /\ pc[p] = "move_process"
    /\ finalSheetData[p] # <<>>
    /\ LET fileData == Head(finalSheetData[p])
       IN /\ inflow' = IF isInflow(fileData) THEN addToInflowSheet(inflow, fileData)
                       ELSE inflow
          /\ outflow' = IF isInflow(fileData) THEN outflow
                        ELSE addToOutflowSheet(outflow, fileData)
    /\ Goto(p, "move_file")
    /\ UNCHANGED <<buffer, final, drive, lock, locals, result, enriched, external>>
    /\ UNCHANGED <<jobVars, tenantVars, passVars>>

\* moveFileToFolder throws: the error is collected, after the row of the
\* file was added, and the loop takes the next row.
MoveFileThrows(p) ==
    /\ errorCount' = [errorCount EXCEPT ![p] = @ + 1]
    /\ finalSheetData' = [finalSheetData EXCEPT ![p] = Tail(@)]
    /\ Goto(p, "move_process")
    /\ UNCHANGED drive

\* moveFileToFolder: DriveApp.getFileById finds the file and
\* targetFolder.addFile(file) puts it in the Inflow or the Outflow folder.
MoveAddFile(p) ==
    /\ pc[p] = "move_file"
    /\ LET fileData == Head(finalSheetData[p])
           r == fileData.fileUrl
       IN IF fileOf(r).exists
          THEN /\ drive' = [drive EXCEPT ![r] = addFile(targetFolder(fileData), @)]
               /\ Goto(p, "move_remove")
               /\ UNCHANGED <<errorCount, finalSheetData>>
          ELSE MoveFileThrows(p)
    /\ UNCHANGED <<buffer, final, inflow, outflow, lock, activeFiles, deletionData,
                   reactivationData, frame, result, enriched, external>>
    /\ UNCHANGED <<jobVars, tenantVars, passVars>>

\* sourceFolder.removeFile(file) takes the file out of the Buffer folder.
MoveRemoveFile(p) ==
    /\ pc[p] = "move_remove"
    /\ LET r == Head(finalSheetData[p]).fileUrl
       IN IF fileOf(r).exists
          THEN /\ drive' = [drive EXCEPT ![r] = removeFile("Buffer", @)]
               /\ finalSheetData' = [finalSheetData EXCEPT ![p] = Tail(@)]
               /\ Goto(p, "move_process")
               /\ UNCHANGED errorCount
          ELSE MoveFileThrows(p)
    /\ UNCHANGED <<buffer, final, inflow, outflow, lock, activeFiles, deletionData,
                   reactivationData, frame, result, enriched, external>>
    /\ UNCHANGED <<jobVars, tenantVars, passVars>>

\* The loop is over without an error: clearFinalSheet reads
\* finalSheet.getLastRow(); with no data row it has nothing to delete.
MoveGetLastRow(p) ==
    /\ pc[p] = "move_process"
    /\ finalSheetData[p] = <<>>
    /\ errorCount[p] = 0
    /\ frame' = [frame EXCEPT ![p].lastRow = getLastRow(final)]
    /\ Goto(p, IF getLastRow(final) > 1 THEN "move_clear" ELSE "move_finish")
    /\ UNCHANGED <<sheets, lock, activeFiles, deletionData, reactivationData,
                   finalSheetData, errorCount, result, enriched, external>>
    /\ UNCHANGED <<jobVars, tenantVars, passVars>>

\* clearFinalSheet: finalSheet.deleteRows(2, lastRow - 1), with the last
\* row of the read.
MoveDeleteRows(p) ==
    /\ pc[p] = "move_clear"
    /\ final' = clearFinalSheet(final, frame[p].lastRow)
    /\ UNCHANGED frame
    /\ Goto(p, "move_finish")
    /\ UNCHANGED <<buffer, inflow, outflow, drive, lock, activeFiles, deletionData,
                   reactivationData, finalSheetData, errorCount, result, enriched,
                   external>>
    /\ UNCHANGED <<jobVars, tenantVars, passVars>>

\* return { success: true, errorCount }, after clearFinalSheet or, with an
\* error, without it; finally releaseLock.
MoveFinish(p) ==
    /\ \/ pc[p] = "move_finish"
       \/ pc[p] = "move_process" /\ finalSheetData[p] = <<>> /\ errorCount[p] > 0
    /\ frame' = [frame EXCEPT ![p] = NoFrame]
    /\ lock' = releaseLock(lock, p)
    /\ Ends(p, Success(MOVE, errorCount[p]))
    /\ UNCHANGED <<sheets, activeFiles, deletionData, reactivationData,
                   finalSheetData, enriched, external>>
    /\ UNCHANGED <<jobVars, tenantVars, passVars>>

\* 'No files to move from final sheet'; finally releaseLock.
MoveReturn(p) ==
    /\ pc[p] = "move_return"
    /\ lock' = releaseLock(lock, p)
    /\ Ends(p, Success(MOVE, 0))
    /\ UNCHANGED <<sheets, activeFiles, deletionData, reactivationData,
                   finalSheetData, frame, enriched, external>>
    /\ UNCHANGED <<jobVars, tenantVars, passVars>>

\* ------------------------------------------------ retryFailedAIProcessing
RETRY == "retryFailedAIProcessing"

\* The operator asks for a retry: getClientByName finds the client.
RetryGetClient(p) ==
    /\ pc[p] = "idle"
    /\ external > 0
    /\ canLock(lock, p)
    /\ lock' = getAllClients(lock, p)
    /\ external' = external - 1
    /\ Goto(p, "retry_read")
    /\ UNCHANGED <<sheets, locals, result, enriched>>
    /\ Starts
    /\ UNCHANGED <<jobVars, tenantVars>>

\* The client name is not in the master sheet: INVALID_INPUT.
RetryClientNotFound(p) ==
    /\ pc[p] = "idle"
    /\ external > 0
    /\ canLock(lock, p)
    /\ lock' = getAllClients(lock, p)
    /\ external' = external - 1
    /\ Ends(p, Thrown(RETRY, "INVALID_INPUT"))
    /\ UNCHANGED <<sheets, activeFiles, deletionData, reactivationData,
                   finalSheetData, frame, enriched>>
    /\ Starts
    /\ UNCHANGED <<jobVars, tenantVars>>

\* getAllClients cannot take the lock within 5 s: the retry throws.
RetryLockTimeout(p) ==
    /\ pc[p] = "idle"
    /\ external > 0
    /\ ~canLock(lock, p)
    /\ lock' = getAllClients(lock, p)
    /\ external' = external - 1
    /\ Ends(p, Thrown(RETRY, "SYSTEM_ERROR"))
    /\ UNCHANGED <<sheets, activeFiles, deletionData, reactivationData,
                   finalSheetData, frame, enriched>>
    /\ Starts
    /\ UNCHANGED <<jobVars, tenantVars>>

\* The rows whose Status cell reads Failed, in sheet order.
failedRowsOf(buf) == SelectSeq(BufferRows(buf), LAMBDA r : buf[r].status = FAILED)

\* bufferSheet.getDataRange().getValues(): the whole sheet is read once;
\* without a Failed row the retry returns.
RetryRead(p) ==
    /\ pc[p] = "retry_read"
    /\ failedRows' = [failedRows EXCEPT ![p] = failedRowsOf(buffer)]
    /\ IF failedRows'[p] = <<>>
       THEN Ends(p, Success(RETRY, 0))
       ELSE /\ Goto(p, "retry_status")
            /\ UNCHANGED <<result, errorCount>>
    /\ UNCHANGED <<sheets, lock, activeFiles, deletionData, reactivationData,
                   finalSheetData, frame, enriched, external, passes, waiting,
                   quota>>
    /\ UNCHANGED <<jobVars, tenantVars>>

\* The Status cell of the next row that was read as Failed is set to Active.
RetryStatus(p) ==
    /\ pc[p] = "retry_status"
    /\ buffer' = setStatus(buffer, Head(failedRows[p]), ACTIVE)
    /\ enriched' = [enriched EXCEPT ![rowAt(buffer, Head(failedRows[p])).fileUrl] = FALSE]
    /\ Goto(p, "retry_attempts")
    /\ UNCHANGED <<final, inflow, outflow, drive, lock, locals, result, external>>
    /\ UNCHANGED <<jobVars, tenantVars, passVars>>

\* The Processing Attempts cell of the row is set to '0'.
RetryAttempts(p) ==
    /\ pc[p] = "retry_attempts"
    /\ buffer' = setAttempts(buffer, Head(failedRows[p]), 0)
    /\ Goto(p, "retry_reason")
    /\ UNCHANGED <<final, inflow, outflow, drive, lock, locals, result, enriched,
                   external>>
    /\ UNCHANGED <<jobVars, tenantVars, passVars>>

\* The Reason cell of the row is written; the loop goes on or returns.
RetryReason(p) ==
    /\ pc[p] = "retry_reason"
    /\ buffer' = setReason(buffer, Head(failedRows[p]), <<"Retry requested on", TS>>)
    /\ failedRows' = [failedRows EXCEPT ![p] = Tail(@)]
    /\ IF Tail(failedRows[p]) = <<>>
       THEN Ends(p, Success(RETRY, 0))
       ELSE /\ Goto(p, "retry_status")
            /\ UNCHANGED <<result, errorCount>>
    /\ UNCHANGED <<final, inflow, outflow, drive, lock, activeFiles, deletionData,
                   reactivationData, finalSheetData, frame, enriched, external,
                   passes, waiting, quota>>
    /\ UNCHANGED <<jobVars, tenantVars>>

RetryFailedAIProcessing(p) ==
    RetryGetClient(p) \/ RetryClientNotFound(p) \/ RetryLockTimeout(p)
    \/ RetryRead(p) \/ RetryStatus(p) \/ RetryAttempts(p) \/ RetryReason(p)

\* ------------------------------------------------------------ environment
HumanReasons == {<<>>, <<" ">>, <<"duplicate">>}

\* The operator sets Status to Deleted and types a reason (or none).
OperatorMarksDeleted(r, humanReason) ==
    /\ external > 0
    /\ buffer[r].status # DELETED \/ trim(buffer[r].reason) = <<>>
    /\ buffer' = [buffer EXCEPT ![r].status = DELETED, ![r].reason = humanReason]
    /\ external' = external - 1
    /\ UNCHANGED <<final, inflow, outflow, drive, lock, pc, locals, result, enriched>>
    /\ UNCHANGED <<jobVars, tenantVars, passVars>>

\* The operator sets Status of a deleted row back to Active.
OperatorMarksActive(r) ==
    /\ external > 0
    /\ buffer[r].status = DELETED
    /\ buffer' = [buffer EXCEPT ![r].status = ACTIVE]
    /\ external' = external - 1
    /\ UNCHANGED <<final, inflow, outflow, drive, lock, pc, locals, result, enriched>>
    /\ UNCHANGED <<jobVars, tenantVars, passVars>>

\* The file is removed from Drive.
DriveFileRemoved(fileUrl) ==
    /\ external > 0
    /\ drive[fileUrl].exists
    /\ drive' = [drive EXCEPT ![fileUrl].exists = FALSE]
    /\ external' = external - 1
    /\ UNCHANGED <<buffer, final, inflow, outflow, lock, pc, locals, result, enriched>>
    /\ UNCHANGED <<jobVars, tenantVars, passVars>>

\* ------------------------------------------------------ processFileWithAI
\* One call of processFileWithAI for the file of Buffer row 1, followed
\* statement by statement, with retryWithBackoff around callGeminiAPI.
\*
\* A content type is the sequence of its pieces: <<"image/tiff", "-fx">> is
\* the string image/tiff-fx.  No entry of the supported list is part of
\* another, so a string includes an entry iff one of its pieces is it.
supportedTypes ==
    {"application/pdf", "image/jpeg", "image/jpg", "image/png", "image/gif",
     "image/webp", "image/bmp", "image/tiff", "text/plain", "text/csv"}

\* if (!mimeType) return false; supportedTypes.some(type =>
\* mimeType.toLowerCase().includes(type))
isAISupportedMimeType(mimeType) ==
    /\ mimeType # <<>>
    /\ \E type \in supportedTypes : includes(mimeType, type)

\* The content types, sizes and retry limits the call is followed for.
MimeTypes ==
    {<<"application/pdf">>, <<"IMAGE/PNG">>, <<"image/tiff", "-fx">>,
     <<"application/zip">>, <<>>}
FileSizes == {1024, MAX_FILE_SIZE_FOR_AI, MAX_FILE_SIZE_FOR_AI + 1}
Jitters == {0, 999}
Jobs ==
    [size : FileSizes, mimeType : MimeTypes, apiKey : BOOLEAN,
     maxRetries : 1..MAX_RETRIES, response : {aiResponse(1)},
     timeZone : TimeZones]

\* The errors callGeminiAPI throws when the key is configured.
GeminiErrors == {"API_LIMIT_EXCEEDED", "PROCESSING_FAILED"}

\* The activeFiles entry of the row.
jobFile == Head(getActiveFilesFromBuffer(buffer))

\* processClientDocumentsWithAI calls processFileWithAI(fileData.fileUrl).
ProcessFileWithAI ==
    /\ jobPc = "none"
    /\ getActiveFilesFromBuffer(buffer) # <<>>
    /\ jobPc' = "file"
    /\ UNCHANGED <<job, attempt, lastError, invocations, sleeps, aiResult>>
    /\ UNCHANGED <<sheets, lock, pc, locals, result, enriched, external, tenantVars, passVars>>

\* processFileWithAI's catch: return { success: false, error: message }.
ProcessFileFails(error) ==
    /\ aiResult' = [success |-> FALSE, error |-> error, data |-> NoData]
    /\ jobPc' = "returned"
    /\ UNCHANGED <<job, attempt, lastError, invocations, sleeps>>
    /\ UNCHANGED <<sheets, lock, pc, locals, result, enriched, external, tenantVars, passVars>>

\* DriveApp.getFileById throws.
ProcessFileNotFound ==
    /\ jobPc = "file"
    /\ ~fileOf(jobFile.fileUrl).exists
    /\ ProcessFileFails("FILE_NOT_FOUND")

\* fileSize > SYSTEM_CONFIG.AI.MAX_FILE_SIZE_FOR_AI
ProcessFileTooLarge ==
    /\ jobPc = "file"
    /\ fileOf(jobFile.fileUrl).exists
    /\ job.size > MAX_FILE_SIZE_FOR_AI
    /\ ProcessFileFails("PROCESSING_FAILED: File too large")

\* !isAISupportedMimeType(mimeType)
ProcessFileUnsupported ==
    /\ jobPc = "file"
    /\ fileOf(jobFile.fileUrl).exists
    /\ job.size <= MAX_FILE_SIZE_FOR_AI
    /\ ~isAISupportedMimeType(job.mimeType)
    /\ ProcessFileFails("PROCESSING_FAILED: Unsupported file type")

\* retryWithBackoff(() => callGeminiAPI(file, mimeType), MAX_RETRIES,
\* RETRY_DELAY): for (let attempt = 1; ...
RetryWithBackoff ==
    /\ jobPc = "file"
    /\ fileOf(jobFile.fileUrl).exists
    /\ job.size <= MAX_FILE_SIZE_FOR_AI
    /\ isAISupportedMimeType(job.mimeType)
    /\ jobPc' = "retry"
    /\ attempt' = 1
    /\ lastError' = "undefined"
    /\ UNCHANGED <<job, invocations, sleeps, aiResult>>
    /\ UNCHANGED <<sheets, lock, pc, locals, result, enriched, external, tenantVars, passVars>>

\* baseDelay * Math.pow(2, attempt - 1) + Math.random() * 1000
backoffDelay(baseDelay, n, jitter) == baseDelay * 2 ^ (n - 1) + jitter

\* Variant: the loop sleeps after its last attempt as well.
retryCatch_SleepsAfterLast(error) ==
    /\ lastError' = error
    /\ \E jitter \in Jitters :
           sleeps' = Append(sleeps, backoffDelay(RETRY_DELAY, attempt, jitter))
    /\ attempt' = attempt + 1

\* catch (error) { lastError = error; if (attempt < maxRetries) sleep(delay) }
\* and the loop's attempt++.
retryCatch(error) ==
    /\ lastError' = error
    /\ IF attempt < job.maxRetries
       THEN \E jitter \in Jitters :
                sleeps' = Append(sleeps, backoffDelay(RETRY_DELAY, attempt, jitter))
       ELSE sleeps' = sleeps
    /\ attempt' = attempt + 1

\* fn() is called: callGeminiAPI starts.
callGeminiAPI ==
    /\ jobPc = "retry"
    /\ attempt <= job.maxRetries
    /\ invocations' = invocations + 1

\* getGeminiApiKey throws INVALID_INPUT: the key is missing or blank.
CallGeminiNoKey ==
    /\ callGeminiAPI
    /\ ~job.apiKey
    /\ retryCatch("INVALID_INPUT")
    /\ UNCHANGED <<job, jobPc, aiResult>>
    /\ UNCHANGED <<sheets, lock, pc, locals, result, enriched, external, tenantVars, passVars>>

\* The service answers with another code than 200, or with an answer that
\* cannot be parsed.
CallGeminiFails(error) ==
    /\ callGeminiAPI
    /\ job.apiKey
    /\ retryCatch(error)
    /\ UNCHANGED <<job, jobPc, aiResult>>
    /\ UNCHANGED <<sheets, lock, pc, locals, result, enriched, external, tenantVars, passVars>>

\* return fn(): the answer is a JSON object; it is validated, the file is
\* renamed and processFileWithAI returns success with the data.
CallGeminiSucceeds ==
    /\ callGeminiAPI
    /\ job.apiKey
    /\ aiResult' = [success |-> TRUE, error |-> "none",
                    data |-> enrichedData(job.response, jobFile.originalFilename,
                                         job.timeZone)]
    /\ jobPc' = "returned"
    /\ UNCHANGED <<job, attempt, lastError, sleeps>>
    /\ UNCHANGED <<sheets, lock, pc, locals, result, enriched, external, tenantVars, passVars>>

\* The loop is over: throw lastError, caught by processFileWithAI.
RetryThrows ==
    /\ jobPc = "retry"
    /\ attempt > job.maxRetries
    /\ ProcessFileFails(lastError)

\* Back in processClientDocumentsWithAI: aiResult.success.  The one pass is
\* alone with the sheets here, so updateBufferSheetWithAI, the duplicate
\* test and addToFinalSheet are taken in one step.
JobSucceeded ==
    /\ jobPc = "returned"
    /\ aiResult.success
    /\ buffer' = updateBufferSheetWithAI(buffer, jobFile, aiResult.data)
    /\ final' = IF ~isDuplicateInFinalSheet(final, jobFile.fileUrl)
                THEN addToFinalSheet(final, jobFile, aiResult.data)
                ELSE final
    /\ enriched' = [enriched EXCEPT ![jobFile.fileUrl] = TRUE]
    /\ jobPc' = "done"
    /\ UNCHANGED <<job, attempt, lastError, invocations, sleeps, aiResult>>
    /\ UNCHANGED <<inflow, outflow, drive, lock, pc, locals, result, external, tenantVars, passVars>>

\* Back in processClientDocumentsWithAI with a successful result:
\* updateBufferSheetWithAI has written the Working row, then addToFinalSheet
\* throws (appendRow fails); the catch of the loop calls markFileAsFailed
\* with error.message for the same record.
JobFinalSheetFails ==
    /\ jobPc = "returned"
    /\ aiResult.success
    /\ ~isDuplicateInFinalSheet(final, jobFile.fileUrl)
    /\ buffer' = markFileAsFailed(updateBufferSheetWithAI(buffer, jobFile, aiResult.data),
                                  jobFile, "Service error")
    /\ jobPc' = "done"
    /\ UNCHANGED <<job, attempt, lastError, invocations, sleeps, aiResult>>
    /\ UNCHANGED <<final, inflow, outflow, drive, lock, pc, locals, result,
                   enriched, external, tenantVars, passVars>>

\* Back in processClientDocumentsWithAI: markFileAsFailed(aiResult.error).
JobFailed ==
    /\ jobPc = "returned"
    /\ ~aiResult.success
    /\ buffer' = markFileAsFailed(buffer, jobFile, aiResult.error)
    /\ jobPc' = "done"
    /\ UNCHANGED <<job, attempt, lastError, invocations, sleeps, aiResult>>
    /\ UNCHANGED <<final, inflow, outflow, drive, lock, pc, locals, result,
                   enriched, external, tenantVars, passVars>>

\* One file of any size and content type, with or without the API key, and
\* a retry limit up to MAX_RETRIES; the file may be gone from Drive.
InitJob ==
    /\ Start(NumRowsConcurrent, 1)
    /\ quota = 0
    /\ job \in Jobs
    /\ jobPc = "none"
    /\ attempt = 0
    /\ lastError = "undefined"
    /\ invocations = 0
    /\ sleeps = <<>>
    /\ aiResult = NoAIResult
    /\ OneClient

NextJob ==
    \/ ProcessFileWithAI
    \/ ProcessFileNotFound \/ ProcessFileTooLarge \/ ProcessFileUnsupported
    \/ RetryWithBackoff
    \/ CallGeminiNoKey
    \/ \E error \in GeminiErrors : CallGeminiFails(error)
    \/ CallGeminiSucceeds
    \/ RetryThrows
    \/ JobSucceeded \/ JobFinalSheetFails \/ JobFailed
    \/ \E fileUrl \in DOMAIN drive : DriveFileRemoved(fileUrl)

\* processFileWithAI is synchronous: once called, it runs to its return.
JobRunning ==
    /\ jobPc # "none"
    /\ NextJob

SpecJob == InitJob /\ [][NextJob]_vars /\ WF_vars(JobRunning)

\* The answers of the AI service the validation is followed for: in each
\* field a missing value, a well-formed one, malformed and wrongly typed ones.
Responses ==
    [date : {Undefined, Str(<<"Jan", " ", "5", " ", "2024">>), Num(5), Num(-100)},
     vendorName : {Undefined, Str(<<"Acme", " ", "Co">>), Str(<<" ", "_">>), Num(7),
                   Str(<<"Acme", "_", "Co.">>), Str(<<"...">>),
                   Str(<<"International", " ", "Business", " ", "Machines", " ",
                         "Corporation", " ", "of", " ", "North", " ", "America",
                         " ", "Incorporated", " ", "Limited">>)},
     invoiceNumber : {Undefined, Str(<<"INV-9">>), Str(<<"INV", "_", "9">>),
                      Str(<<LongInvoice>>)},
     amount : {Undefined, Str(<<"$", "1,234.5">>), Obj},
     documentType : {Undefined, Str(<<" ", "RECEIPT">>), Str(<<"memo">>), Num(5)},
     transactionType : {Undefined, Str(<<"Expense">>), Obj},
     confidence : {Undefined, Num(95), Num(150), Num(-20), Str(<<"high">>),
                   Str(<<"1.5">>)}]

\* One supported file, named with or without an extension, with the API
\* key configured, and any answer.
InitEnrich ==
    /\ \E originalFilename \in OriginalFilenames : Started(<<originalFilename>>, 0)
    /\ quota = 0
    /\ job \in [size : {1024}, mimeType : {<<"application/pdf">>}, apiKey : {TRUE},
                maxRetries : {MAX_RETRIES}, response : Responses,
                timeZone : TimeZones]
    /\ jobPc = "none"
    /\ attempt = 0
    /\ lastError = "undefined"
    /\ invocations = 0
    /\ sleeps = <<>>
    /\ aiResult = NoAIResult
    /\ OneClient

\* The AI service answers at the first attempt.
NextEnrich ==
    \/ ProcessFileWithAI
    \/ RetryWithBackoff
    \/ CallGeminiSucceeds
    \/ JobSucceeded

SpecEnrich == InitEnrich /\ [][NextEnrich]_vars

\* ---------------------------------------------------------------- clients
\* The master config sheet is the sequence of its data rows; Drive is the
\* set of root folders and the set of spreadsheets (each with the folder
\* that holds it, 0 for My Drive) that are not in the trash, and the set of
\* the ids that setTrashed(true) has taken to the trash.
ClientNames == {"acme", "ACME", "beta"}
GmailLabels == {"clients/acme", "clients/beta"}

docVars == <<sheets, lock, pc, locals, result, enriched, external>>

\* A row of the master sheet without a value in any cell but the ones
\* written into it.
EmptyRow ==
    [name |-> "", gmailLabel |-> "", rootFolderId |-> 0, spreadsheetId |-> 0,
     status |-> "", createdAt |-> 0, lastModified |-> 0]

\* getAllClients keeps the rows with a name, a label, a folder id and a
\* spreadsheet id: if (name && label && folderId && spreadsheetId)
complete(c) ==
    c.name # "" /\ c.gmailLabel # "" /\ c.rootFolderId # 0 /\ c.spreadsheetId # 0

\* clients.find(c => c.name.toLowerCase() === name.toLowerCase())
getClientByName(m, name) ==
    {i \in DOMAIN m : complete(m[i]) /\ toLowerCase(m[i].name) = toLowerCase(name)}

\* clients.find(c => c.gmailLabel.toLowerCase() === label.toLowerCase())
getClientByLabel(m, label) ==
    {i \in DOMAIN m :
        complete(m[i]) /\ toLowerCase(m[i].gmailLabel) = toLowerCase(label)}

\* getAllClients().filter(client => client.status === 'Active')
getActiveClients(m) == SelectSeq(m, LAMBDA c : complete(c) /\ c.status = ACTIVE)

\* The first row of the name: the row updateClient writes.
firstRow(rows) == CHOOSE i \in rows : \A j \in rows : i <= j

\* The rows updateClient compares with the name, in the values it has read:
\* rowName.toLowerCase() === clientName.toLowerCase()
rowsNamed(m, clientName) ==
    {i \in DOMAIN m : toLowerCase(m[i].name) = toLowerCase(clientName)}

\* sheet.getRange(row, column).setValue(value): a row below the last one is
\* filled; the rows between stay empty.
setCell(m, row, column, value) ==
    LET padded == [i \in 1..max(Len(m), row) |-> IF i <= Len(m) THEN m[i] ELSE EmptyRow]
    IN [padded EXCEPT ![row][column] = value]

\* The script lock in the hands of updateClient, of the running
\* addClientWithAtomicTransaction and of the preempted one.
UpdaterId == NumProcs + 1
CreatorId == NumProcs + 2
WaiterId == NumProcs + 3

\* A call of addClientWithAtomicTransaction, updateClient or
\* processAllClientsWithAI starts.
ClientCallStarts ==
    /\ quota > 0
    /\ quota' = quota - 1
    /\ UNCHANGED <<passes, failedRows, waiting>>

\* The updates updateClient is called with: each of gmailLabel and status
\* is a value or undefined.
Updates ==
    [gmailLabel : GmailLabels \cup {undefined},
     status : {ACTIVE, INACTIVE, undefined}]

\* The cell updateClient writes first.
firstWrite(updates) ==
    IF updates.gmailLabel # undefined THEN "label"
    ELSE IF updates.status # undefined THEN "status"
    ELSE "modified"

\* updateClient(clientName, updates): tryLock(10000), the sheet is read and
\* the first row with the name is found.
updateClient(clientName, updates) ==
    /\ update.pc = "idle"
    /\ canLock(lock, UpdaterId)
    /\ rowsNamed(master, clientName) # {}
    /\ lock' = tryLock(lock, UpdaterId)
    /\ update' = [pc |-> firstWrite(updates), name |-> clientName,
                  row |-> firstRow(rowsNamed(master, clientName)),
                  status |-> updates.status, gmailLabel |-> updates.gmailLabel,
                  result |-> "none"]
    /\ ClientCallStarts
    /\ UNCHANGED <<master, cloud, creation, lastRun, now>>
    /\ UNCHANGED <<sheets, pc, locals, result, enriched, external>>
    /\ UNCHANGED jobVars

\* No row has the name: INVALID_INPUT is thrown and nothing is written;
\* finally releaseLock.
UpdateClientNotFound(clientName) ==
    /\ update.pc = "idle"
    /\ canLock(lock, UpdaterId)
    /\ rowsNamed(master, clientName) = {}
    /\ update' = [NoUpdate EXCEPT !.name = clientName, !.result = "INVALID_INPUT"]
    /\ ClientCallStarts
    /\ UNCHANGED <<master, cloud, creation, lastRun, now>>
    /\ UNCHANGED <<docVars, jobVars>>

\* tryLock(10000) returns false: SYSTEM_ERROR is thrown and nothing is
\* written; finally releaseLock.
UpdateClientLockTimeout(clientName) ==
    /\ update.pc = "idle"
    /\ ~canLock(lock, UpdaterId)
    /\ lock' = releaseLock(lock, UpdaterId)
    /\ update' = [NoUpdate EXCEPT !.name = clientName, !.result = "SYSTEM_ERROR"]
    /\ ClientCallStarts
    /\ UNCHANGED <<master, cloud, creation, lastRun, now>>
    /\ UNCHANGED <<sheets, pc, locals, result, enriched, external>>
    /\ UNCHANGED jobVars

\* deleteClientAction: deactivateClient(name), which is updateClient with
\* { status: 'Inactive' }.
DeleteClient(name) ==
    updateClient(name, [gmailLabel |-> undefined, status |-> INACTIVE])

\* activateClient: updateClient with { status: 'Active' }.
ActivateClient(name) ==
    updateClient(name, [gmailLabel |-> undefined, status |-> ACTIVE])

\* updateClient called with a label, or with nothing to update.
OtherUpdates ==
    {updates \in Updates :
        updates.gmailLabel # undefined \/ updates.status = undefined}

\* if (updates.gmailLabel !== undefined): the Gmail Label cell of the row is
\* written, whatever the labels of the other rows.
UpdateClientGmailLabel ==
    /\ update.pc = "label"
    /\ master' = setCell(master, update.row, "gmailLabel", update.gmailLabel)
    /\ update' = [update EXCEPT !.pc = IF update.status # undefined
                                       THEN "status" ELSE "modified"]
    /\ UNCHANGED <<cloud, creation, lastRun, now>>
    /\ UNCHANGED <<docVars, jobVars, passVars>>

\* if (updates.status !== undefined): the Status cell of the row is written.
UpdateClientStatus ==
    /\ update.pc = "status"
    /\ master' = setCell(master, update.row, "status", update.status)
    /\ update' = [update EXCEPT !.pc = "modified"]
    /\ UNCHANGED <<cloud, creation, lastRun, now>>
    /\ UNCHANGED <<docVars, jobVars, passVars>>

\* updateClient writes the Last Modified cell of the row and returns
\* success; finally releaseLock.
UpdateClientLastModified ==
    /\ update.pc = "modified"
    /\ master' = setCell(master, update.row, "lastModified", now)
    /\ lock' = releaseLock(lock, UpdaterId)
    /\ update' = [NoUpdate EXCEPT !.name = update.name, !.result = "success"]
    /\ UNCHANGED <<cloud, creation, lastRun, now>>
    /\ UNCHANGED <<sheets, pc, locals, result, enriched, external>>
    /\ UNCHANGED <<jobVars, passVars>>

\* ------------------------------------------------ processAllClientsWithAI
\* The names of the clients getActiveClients() returns.
activeClientNames(m) ==
    [i \in DOMAIN getActiveClients(m) |-> getActiveClients(m)[i].name]

\* The batch is over when the loop has taken the last client.
afterClient(pending) == IF pending = <<>> THEN "idle" ELSE "client"

\* processAllClientsWithAI: getActiveClients() reads the master sheet and
\* the loop over the clients starts; without an active client the batch
\* returns.
ProcessAllClientsWithAI ==
    /\ lastRun.pc = "idle"
    /\ canLock(lock, 0)
    /\ lastRun' = [ran |-> TRUE,
                   clients |-> activeClientNames(master),
                   pending |-> activeClientNames(master),
                   pc |-> afterClient(activeClientNames(master)),
                   successCount |-> 0, failureCount |-> 0,
                   error |-> "none"]
    /\ ClientCallStarts
    /\ UNCHANGED <<master, cloud, creation, now, update>>
    /\ UNCHANGED <<docVars, jobVars>>

\* getActiveClients cannot take the lock within 5 s: the batch rethrows
\* SYSTEM_ERROR and no client is processed.
ProcessAllClientsLockTimeout ==
    /\ lastRun.pc = "idle"
    /\ ~canLock(lock, 0)
    /\ lastRun' = [NoRun EXCEPT !.error = "SYSTEM_ERROR"]
    /\ ClientCallStarts
    /\ UNCHANGED <<master, cloud, creation, now, update>>
    /\ UNCHANGED <<docVars, jobVars>>

\* The loop is through with a client: successCount++ and
\* sleep(RETRY_DELAY * 2), or failureCount++ in the catch.
clientDone(succeeded) ==
    [lastRun EXCEPT !.pending = Tail(@),
                    !.pc = afterClient(Tail(lastRun.pending)),
                    !.successCount = IF succeeded THEN @ + 1 ELSE @,
                    !.failureCount = IF succeeded THEN @ ELSE @ + 1]

\* The pass of the batch runs as the first invocation.
BatchProc == CHOOSE p \in Procs : \A q \in Procs : p <= q

\* processClientDocumentsWithAI(client.name) starts for the next client of
\* the loop: getClientByName, through getAllClients.  The lock taken by
\* another execution or a name that is no longer in the sheet makes the
\* pass throw, and the loop counts a failure.
ProcessClientStarts ==
    /\ lastRun.pc = "client"
    /\ LET name == Head(lastRun.pending)
           rows == getClientByName(master, name)
       IN IF ~canLock(lock, BatchProc) \/ rows = {}
          THEN /\ lastRun' = clientDone(FALSE)
               /\ UNCHANGED pc
          ELSE IF holdsDocuments(master[firstRow(rows)])
          THEN /\ lastRun' = [lastRun EXCEPT !.pc = "pass"]
               /\ Goto(BatchProc, "ai_validate")
          ELSE /\ lastRun' = [lastRun EXCEPT !.pc = "other"]
               /\ UNCHANGED pc
    /\ UNCHANGED <<master, cloud, creation, now, update>>
    /\ UNCHANGED <<sheets, lock, locals, result, enriched, external>>
    /\ UNCHANGED <<jobVars, passVars>>

\* The pass over the documents of the model has returned or thrown: the
\* loop counts it and takes the next client.
ProcessClientReturns ==
    /\ lastRun.pc = "pass"
    /\ pc[BatchProc] = "done"
    /\ lastRun' = clientDone(result[BatchProc].status = "success")
    /\ pc' = [pc EXCEPT ![BatchProc] = "idle"]
    /\ result' = [result EXCEPT ![BatchProc] = NoResult]
    /\ UNCHANGED <<master, cloud, creation, now, update>>
    /\ UNCHANGED <<sheets, lock, locals, enriched, external>>
    /\ UNCHANGED <<jobVars, passVars>>

\* The pass over a client made by addClientWithAtomicTransaction:
\* validateClientConfiguration looks the client up again and opens its
\* folders and its spreadsheet; the Buffer sheet of the client has no file
\* and the pass returns success, or the validation fails and it throws.
ProcessOtherClient ==
    /\ lastRun.pc = "other"
    /\ LET rows == getClientByName(master, Head(lastRun.pending))
       IN lastRun' = clientDone(/\ canLock(lock, BatchProc)
                                /\ rows # {}
                                /\ accessible(master[firstRow(rows)]))
    /\ UNCHANGED <<master, cloud, creation, now, update>>
    /\ UNCHANGED <<docVars, jobVars, passVars>>

\* The steps of the pass the batch has started; no operator edits the
\* documents meanwhile and Drive loses none, so no file is a reactivated one
\* and none is missing.
ProcessClientStep ==
    \/ AIValidate(BatchProc) \/ AIValidateFails(BatchProc) \/ AIRead(BatchProc)
    \/ AIFreshSuccess(BatchProc) \/ AIFreshFailure(BatchProc)
    \/ AIWriteChangedFilename(BatchProc) \/ AIWriteInvoiceNumber(BatchProc)
    \/ AIReadAttempts(BatchProc) \/ AIWriteAttempts(BatchProc)
    \/ AIDuplicate(BatchProc) \/ AINoDuplicate(BatchProc)
    \/ AIAddToFinalSheet(BatchProc)
    \/ MarkFailedStatus(BatchProc) \/ MarkFailedReason(BatchProc)
    \/ MarkFailedReadAttempts(BatchProc) \/ MarkFailedWriteAttempts(BatchProc)

\* Time passes.
Tick ==
    /\ now < MaxClock
    /\ now' = now + 1
    /\ UNCHANGED <<master, cloud, creation, lastRun, update>>
    /\ UNCHANGED <<docVars, jobVars, passVars>>

\* ------------------------------------------ addClientWithAtomicTransaction
\* The creation moves to another statement.
creationAt(position) == [creation EXCEPT !.pc = position]

\* An error is thrown inside the try block: the catch block starts.
creationCatches(c, error) == [c EXCEPT !.pc = "rollback_row", !.error = error]

\* addClientWithAtomicTransaction(clientName, gmailLabel): tryLock(30000)
\* takes the script lock.
AddClient(name, gmailLabel) ==
    /\ creation.pc \in {"idle", "thrown", "returned"}
    /\ canLock(lock, CreatorId)
    /\ cloud.nextId + 1 <= MaxResourceId
    /\ lock' = tryLock(lock, CreatorId)
    /\ creation' = [NoCreation EXCEPT !.pc = "existing_client", !.name = name,
                                      !.gmailLabel = gmailLabel]
    /\ ClientCallStarts
    /\ UNCHANGED <<master, cloud, lastRun, now, update>>
    /\ UNCHANGED <<sheets, pc, locals, result, enriched, external>>
    /\ UNCHANGED jobVars

\* tryLock(30000) returns false: SYSTEM_ERROR 'Could not acquire lock for
\* client creation' is thrown with nothing made.
AddClientLockTimeout(name, gmailLabel) ==
    /\ creation.pc \in {"idle", "thrown", "returned"}
    /\ ~canLock(lock, CreatorId)
    /\ creation' = creationCatches(
           [NoCreation EXCEPT !.name = name, !.gmailLabel = gmailLabel],
           "SYSTEM_ERROR")
    /\ ClientCallStarts
    /\ UNCHANGED <<master, cloud, lastRun, now, update>>
    /\ UNCHANGED <<docVars, jobVars>>

\* existingClient = getClientByName(cleanName): getAllClients reads the
\* sheet and gives the script lock up; a client of the name throws
\* DUPLICATE_CLIENT.
ExistingClientCheck ==
    /\ creation.pc = "existing_client"
    /\ lock' = getAllClients(lock, CreatorId)
    /\ creation' = IF getClientByName(master, creation.name) # {}
                   THEN creationCatches(creation, "DUPLICATE_CLIENT")
                   ELSE creationAt("existing_label")
    /\ UNCHANGED <<master, cloud, lastRun, now, update>>
    /\ UNCHANGED <<sheets, pc, locals, result, enriched, external>>
    /\ UNCHANGED <<jobVars, passVars>>

\* existingLabel = getClientByLabel(cleanLabel): getAllClients throws
\* SYSTEM_ERROR when another execution has the lock; a client of the label
\* throws DUPLICATE_CLIENT; otherwise the creation goes on to Step 1.
ExistingLabelCheck ==
    /\ creation.pc = "existing_label"
    /\ creation' = IF ~canLock(lock, CreatorId)
                   THEN creationCatches(creation, "SYSTEM_ERROR")
                   ELSE IF getClientByLabel(master, creation.gmailLabel) # {}
                   THEN creationCatches(creation, "DUPLICATE_CLIENT")
                   ELSE creationAt("folders")
    /\ UNCHANGED <<master, cloud, lastRun, now, update>>
    /\ UNCHANGED <<docVars, jobVars, passVars>>

\* Step 1, createClientFolderStructure returns: createdResources.rootFolder.
CreateFolderStructure ==
    /\ creation.pc = "folders"
    /\ cloud' = [cloud EXCEPT !.folders = @ \cup {cloud.nextId},
                              !.nextId = @ + 1]
    /\ creation' = [creation EXCEPT !.pc = "spreadsheet",
                                    !.rootFolder = cloud.nextId,
                                    !.made = @ \cup {cloud.nextId}]
    /\ UNCHANGED <<master, lastRun, now, update>>
    /\ UNCHANGED <<docVars, jobVars, passVars>>

\* Step 1 throws: in DriveApp.createFolder, with no folder made, or in one
\* of the createSubfolder calls, with the root folder made; the function
\* rethrows and createdResources.rootFolder is still null.
CreateFolderStructureFails(rootMade) ==
    /\ creation.pc = "folders"
    /\ IF rootMade
       THEN /\ cloud' = [cloud EXCEPT !.folders = @ \cup {cloud.nextId},
                                      !.nextId = @ + 1]
            /\ creation' = creationCatches(
                   [creation EXCEPT !.made = @ \cup {cloud.nextId}], "Drive error")
       ELSE /\ cloud' = cloud
            /\ creation' = creationCatches(creation, "Drive error")
    /\ UNCHANGED <<master, lastRun, now, update>>
    /\ UNCHANGED <<docVars, jobVars, passVars>>

\* Step 2, createClientSpreadsheet: SpreadsheetApp.create makes the
\* spreadsheet, in My Drive.
CreateSpreadsheet ==
    /\ creation.pc = "spreadsheet"
    /\ cloud' = [cloud EXCEPT
                   !.spreadsheets = @ \cup {[id |-> cloud.nextId, folder |-> 0,
                                             root |-> TRUE]},
                   !.nextId = @ + 1]
    /\ creation' = [creation EXCEPT !.pc = "add_file",
                                    !.spreadsheetFile = cloud.nextId,
                                    !.made = @ \cup {cloud.nextId}]
    /\ UNCHANGED <<master, lastRun, now, update>>
    /\ UNCHANGED <<docVars, jobVars, passVars>>

\* SpreadsheetApp.create throws, with no spreadsheet made; the function
\* rethrows and createdResources.spreadsheet is still null.
CreateSpreadsheetFails ==
    /\ creation.pc = "spreadsheet"
    /\ creation' = creationCatches(creation, "Drive error")
    /\ UNCHANGED <<master, cloud, lastRun, now, update>>
    /\ UNCHANGED <<docVars, jobVars, passVars>>

\* The spreadsheets of Drive, with one of them changed.
withFile(spreadsheets, id, folder, root) ==
    {IF f.id = id THEN [id |-> id, folder |-> folder, root |-> root] ELSE f :
        f \in spreadsheets}

\* The spreadsheet the creation has made, as Drive has it.
spreadsheetFile == CHOOSE f \in cloud.spreadsheets : f.id = creation.spreadsheetFile

\* DriveApp.getFileById, sleep(1000), spreadsheetsFolder.addFile: the
\* spreadsheet is in the Spreadsheets folder of the client as well.
SpreadsheetAddFile ==
    /\ creation.pc = "add_file"
    /\ cloud' = [cloud EXCEPT !.spreadsheets =
                     withFile(@, creation.spreadsheetFile, creation.rootFolder,
                              spreadsheetFile.root)]
    /\ creation' = creationAt("remove_file")
    /\ UNCHANGED <<master, lastRun, now, update>>
    /\ UNCHANGED <<docVars, jobVars, passVars>>

\* getFileById or addFile throws: the spreadsheet stays in My Drive; the
\* function rethrows and createdResources.spreadsheet is still null.
SpreadsheetAddFileFails ==
    /\ creation.pc = "add_file"
    /\ creation' = creationCatches(creation, "Drive error")
    /\ UNCHANGED <<master, cloud, lastRun, now, update>>
    /\ UNCHANGED <<docVars, jobVars, passVars>>

\* rootFolders.getFilesByName finds the spreadsheet in My Drive and
\* removeFile takes it out; createClientSpreadsheet returns:
\* createdResources.spreadsheet.
SpreadsheetRemoveFile ==
    /\ creation.pc = "remove_file"
    /\ cloud' = [cloud EXCEPT !.spreadsheets =
                     withFile(@, creation.spreadsheetFile, spreadsheetFile.folder,
                              FALSE)]
    /\ creation' = [creation EXCEPT !.pc = "setup",
                                    !.spreadsheet = creation.spreadsheetFile]
    /\ UNCHANGED <<master, lastRun, now, update>>
    /\ UNCHANGED <<docVars, jobVars, passVars>>

\* getFilesByName or removeFile throws: the spreadsheet is in the folder of
\* the client and in My Drive; the function rethrows and
\* createdResources.spreadsheet is still null.
SpreadsheetRemoveFileFails ==
    /\ creation.pc = "remove_file"
    /\ creation' = creationCatches(creation, "Drive error")
    /\ UNCHANGED <<master, cloud, lastRun, now, update>>
    /\ UNCHANGED <<docVars, jobVars, passVars>>

\* Step 3, setupClientSpreadsheetSheets.
SetupClientSpreadsheetSheets ==
    /\ creation.pc = "setup"
    /\ creation' = creationAt("append")
    /\ UNCHANGED <<master, cloud, lastRun, now, update>>
    /\ UNCHANGED <<docVars, jobVars, passVars>>

\* Step 3 throws.
SetupClientSpreadsheetSheetsFails ==
    /\ creation.pc = "setup"
    /\ creation' = creationCatches(creation, "Sheets error")
    /\ UNCHANGED <<master, cloud, lastRun, now, update>>
    /\ UNCHANGED <<docVars, jobVars, passVars>>

\* Step 4, the final check for duplicates: getDataRange().getValues() is
\* searched for the name and the label.
FinalDuplicateCheck ==
    /\ creation.pc = "append"
    /\ creation' = IF \/ rowsNamed(master, creation.name) # {}
                      \/ \E i \in DOMAIN master :
                            toLowerCase(master[i].gmailLabel)
                                = toLowerCase(creation.gmailLabel)
                   THEN creationCatches(creation, "DUPLICATE_CLIENT")
                   ELSE creationAt("append_row")
    /\ UNCHANGED <<master, cloud, lastRun, now, update>>
    /\ UNCHANGED <<docVars, jobVars, passVars>>

\* Step 4: masterSheet.appendRow(newRow).  newRow takes
\* getCurrentTimestamp() twice, for Created At and for Last Modified, and
\* the clock may have gone on between the two reads.
AppendMasterRow ==
    /\ creation.pc = "append_row"
    /\ \E lastModified \in now..MaxClock :
          /\ master' = Append(master,
                 [name |-> creation.name, gmailLabel |-> creation.gmailLabel,
                  rootFolderId |-> creation.rootFolder,
                  spreadsheetId |-> creation.spreadsheet, status |-> ACTIVE,
                  createdAt |-> now, lastModified |-> lastModified])
          /\ now' = lastModified
    /\ creation' = creationAt("last_row")
    /\ UNCHANGED <<cloud, lastRun, update>>
    /\ UNCHANGED <<docVars, jobVars, passVars>>

\* Step 4: createdResources.masterSheetRow = masterSheet.getLastRow(),
\* counted here in data rows.
GetLastRow ==
    /\ creation.pc = "last_row"
    /\ creation' = [creation EXCEPT !.pc = "verify", !.masterSheetRow = Len(master)]
    /\ UNCHANGED <<master, cloud, lastRun, now, update>>
    /\ UNCHANGED <<docVars, jobVars, passVars>>

\* Steps 5 and 6: getClientByName reads the client back, through
\* getAllClients, and it validates; success is returned; finally
\* releaseLock.
VerifyClient ==
    /\ creation.pc = "verify"
    /\ canLock(lock, CreatorId)
    /\ getClientByName(master, creation.name) # {}
    /\ lock' = releaseLock(getAllClients(lock, CreatorId), CreatorId)
    /\ creation' = creationAt("returned")
    /\ UNCHANGED <<master, cloud, lastRun, now, update>>
    /\ UNCHANGED <<sheets, pc, locals, result, enriched, external>>
    /\ UNCHANGED <<jobVars, passVars>>

\* Step 5 or 6 throws SYSTEM_ERROR: the client cannot be read back (the
\* lock is taken, or the row is not found), or one of its resources is not
\* accessible.
VerifyClientFails ==
    /\ creation.pc = "verify"
    /\ creation' = creationCatches(creation, "SYSTEM_ERROR")
    /\ UNCHANGED <<master, cloud, lastRun, now, update>>
    /\ UNCHANGED <<docVars, jobVars, passVars>>

\* catch, first: if (createdResources.masterSheetRow) deleteRow.
RollbackMasterRow ==
    /\ creation.pc = "rollback_row"
    /\ master' = IF creation.masterSheetRow # 0
                 THEN deleteRow(master, creation.masterSheetRow)
                 ELSE master
    /\ creation' = creationAt("rollback_spreadsheet")
    /\ UNCHANGED <<cloud, lastRun, now, update>>
    /\ UNCHANGED <<docVars, jobVars, passVars>>

\* catch, first: deleteRow (or the openById before it) throws; the inner
\* catch logs the error and the row stays.
RollbackMasterRowFails ==
    /\ creation.pc = "rollback_row"
    /\ creation.masterSheetRow # 0
    /\ creation' = creationAt("rollback_spreadsheet")
    /\ UNCHANGED <<master, cloud, lastRun, now, update>>
    /\ UNCHANGED <<docVars, jobVars, passVars>>

\* catch, second: if (createdResources.spreadsheet) setTrashed(true).
RollbackSpreadsheet ==
    /\ creation.pc = "rollback_spreadsheet"
    /\ cloud' = IF creation.spreadsheet # 0
                THEN [cloud EXCEPT
                        !.spreadsheets = {f \in @ : f.id # creation.spreadsheet},
                        !.trash = @ \cup {creation.spreadsheet}]
                ELSE cloud
    /\ creation' = creationAt("rollback_folder")
    /\ UNCHANGED <<master, lastRun, now, update>>
    /\ UNCHANGED <<docVars, jobVars, passVars>>

\* catch, second: getFileById or setTrashed throws; the inner catch logs
\* the error and the spreadsheet stays.
RollbackSpreadsheetFails ==
    /\ creation.pc = "rollback_spreadsheet"
    /\ creation.spreadsheet # 0
    /\ creation' = creationAt("rollback_folder")
    /\ UNCHANGED <<master, cloud, lastRun, now, update>>
    /\ UNCHANGED <<docVars, jobVars, passVars>>

\* catch, third: if (createdResources.rootFolder) setTrashed(true), which
\* takes what the folder holds to the trash with it; then throw error;
\* finally releaseLock.
RollbackRootFolder ==
    /\ creation.pc = "rollback_folder"
    /\ cloud' = IF creation.rootFolder # 0
                THEN [cloud EXCEPT
                        !.folders = @ \ {creation.rootFolder},
                        !.spreadsheets = {f \in @ : f.folder # creation.rootFolder},
                        !.trash = @ \cup {creation.rootFolder}
                                    \cup {f.id : f \in {g \in cloud.spreadsheets :
                                                          g.folder = creation.rootFolder}}]
                ELSE cloud
    /\ lock' = releaseLock(lock, CreatorId)
    /\ creation' = creationAt("thrown")
    /\ UNCHANGED <<master, lastRun, now, update>>
    /\ UNCHANGED <<sheets, pc, locals, result, enriched, external>>
    /\ UNCHANGED <<jobVars, passVars>>

\* catch, third: setTrashed throws; the inner catch logs the error and the
\* root folder stays, with what it holds; then throw error; finally
\* releaseLock.
RollbackRootFolderFails ==
    /\ creation.pc = "rollback_folder"
    /\ creation.rootFolder # 0
    /\ lock' = releaseLock(lock, CreatorId)
    /\ creation' = creationAt("thrown")
    /\ UNCHANGED <<master, cloud, lastRun, now, update>>
    /\ UNCHANGED <<sheets, pc, locals, result, enriched, external>>
    /\ UNCHANGED <<jobVars, passVars>>

\* The lock when the scheduler exchanges the two executions.
exchanged(l) ==
    CASE l = CreatorId -> WaiterId
      [] l = WaiterId -> CreatorId
      [] OTHER -> l

\* The scheduler runs the other execution of addClientWithAtomicTransaction:
\* the two are separate executions of the script, each with its own
\* createdResources, and nothing holds the script lock after the first
\* getClientByName.
Preempt ==
    /\ creation # waiting
    /\ creation' = waiting
    /\ waiting' = creation
    /\ lock' = exchanged(lock)
    /\ UNCHANGED <<master, cloud, lastRun, now, update, passes, failedRows, quota>>
    /\ UNCHANGED <<sheets, pc, locals, result, enriched, external>>
    /\ UNCHANGED jobVars

InitClients ==
    /\ Start(NumRowsConcurrent, 0)
    /\ quota = MaxClientCalls
    /\ NoJob
    /\ OneClient

\* One addClientWithAtomicTransaction at a time, with updateClient and
\* processAllClientsWithAI.
AddClientGoesOn ==
    \/ ExistingClientCheck \/ ExistingLabelCheck
    \/ CreateFolderStructure
    \/ \E rootMade \in BOOLEAN : CreateFolderStructureFails(rootMade)
    \/ CreateSpreadsheet \/ CreateSpreadsheetFails
    \/ SpreadsheetAddFile \/ SpreadsheetAddFileFails
    \/ SpreadsheetRemoveFile \/ SpreadsheetRemoveFileFails
    \/ SetupClientSpreadsheetSheets \/ SetupClientSpreadsheetSheetsFails
    \/ FinalDuplicateCheck \/ AppendMasterRow \/ GetLastRow
    \/ VerifyClient \/ VerifyClientFails
    \/ RollbackMasterRow \/ RollbackMasterRowFails
    \/ RollbackSpreadsheet \/ RollbackSpreadsheetFails
    \/ RollbackRootFolder \/ RollbackRootFolderFails

AddClientStep ==
    \/ \E name \in ClientNames : \E gmailLabel \in GmailLabels :
           AddClient(name, gmailLabel) \/ AddClientLockTimeout(name, gmailLabel)
    \/ AddClientGoesOn

NextClients ==
    \/ \E name \in ClientNames : DeleteClient(name) \/ ActivateClient(name)
    \/ \E name \in ClientNames : \E updates \in OtherUpdates :
           updateClient(name, updates)
    \/ \E name \in ClientNames :
           UpdateClientNotFound(name) \/ UpdateClientLockTimeout(name)
    \/ UpdateClientGmailLabel \/ UpdateClientStatus \/ UpdateClientLastModified
    \/ ProcessAllClientsWithAI \/ ProcessAllClientsLockTimeout
    \/ ProcessClientStarts \/ ProcessClientStep \/ ProcessClientReturns
    \/ ProcessOtherClient
    \/ Tick
    \/ AddClientStep

SpecClients == InitClients /\ [][NextClients]_vars

\* ------------------------------------------------------------ maintenance
\* cleanupOldAIData, archiveOldData and cleanupAndOptimizeSheets are run by
\* hand from the script editor; nothing in the script calls them and they
\* take no lock of their own. The cells the first two compare with the
\* cutoff (Processing Date, Date Added, Moved Date) hold the time of the
\* write and daysOld is an argument: which rows are older than the cutoff
\* is an input of the read.
CLEANUP == "cleanupOldAIData"
ARCHIVE == "archiveOldData"
OPTIMIZE == "cleanupAndOptimizeSheets"

MaintenanceOps == {CLEANUP, ARCHIVE, OPTIMIZE}

\* Where each call goes on once it has the client, and the first sheet it
\* reads.
firstStep(op) ==
    CASE op = CLEANUP -> [pc |-> "cleanup_read", sheet |-> "Final"]
      [] op = ARCHIVE -> [pc |-> "archive_read", sheet |-> "Buffer"]
      [] op = OPTIMIZE -> [pc |-> "empty_read", sheet |-> "Buffer"]

\* The indexes of a set of rows, from the bottom of the sheet to the top.
RECURSIVE bottomToTop(_)
bottomToTop(rows) ==
    IF rows = {} THEN <<>>
    ELSE LET last == CHOOSE r \in rows : \A q \in rows : q <= r
         IN <<last>> \o bottomToTop(rows \ {last})

MaintenanceGoesOn(p, position) ==
    /\ Goto(p, position)
    /\ UNCHANGED <<lock, activeFiles, deletionData, reactivationData,
                   finalSheetData, errorCount, result, external, enriched, drive>>
    /\ UNCHANGED <<jobVars, tenantVars, passVars>>

MaintenanceEnds(p, res) ==
    /\ Ends(p, res)
    /\ frame' = [frame EXCEPT ![p] = NoFrame]
    /\ UNCHANGED <<lock, activeFiles, deletionData, reactivationData,
                   finalSheetData, external, enriched, drive>>
    /\ UNCHANGED <<jobVars, tenantVars, passVars>>

\* getClientByName finds the client.
MaintenanceGetClient(p, op) ==
    /\ pc[p] = "idle"
    /\ external > 0
    /\ canLock(lock, p)
    /\ lock' = getAllClients(lock, p)
    /\ external' = external - 1
    /\ Goto(p, firstStep(op).pc)
    /\ frame' = [frame EXCEPT ![p].sheet = firstStep(op).sheet, ![p].rows = <<>>]
    /\ UNCHANGED <<sheets, activeFiles, deletionData, reactivationData,
                   finalSheetData, errorCount, result, enriched>>
    /\ Starts
    /\ UNCHANGED <<jobVars, tenantVars>>

\* The client name is not in the master sheet: INVALID_INPUT.
MaintenanceClientNotFound(p, op) ==
    /\ pc[p] = "idle"
    /\ external > 0
    /\ canLock(lock, p)
    /\ lock' = getAllClients(lock, p)
    /\ external' = external - 1
    /\ Ends(p, Thrown(op, "INVALID_INPUT"))
    /\ UNCHANGED <<sheets, activeFiles, deletionData, reactivationData,
                   finalSheetData, frame, enriched>>
    /\ Starts
    /\ UNCHANGED <<jobVars, tenantVars>>

\* getAllClients cannot take the lock within 5 s: the call throws.
MaintenanceLockTimeout(p, op) ==
    /\ pc[p] = "idle"
    /\ external > 0
    /\ ~canLock(lock, p)
    /\ lock' = getAllClients(lock, p)
    /\ external' = external - 1
    /\ Ends(p, Thrown(op, "SYSTEM_ERROR"))
    /\ UNCHANGED <<sheets, activeFiles, deletionData, reactivationData,
                   finalSheetData, frame, enriched>>
    /\ Starts
    /\ UNCHANGED <<jobVars, tenantVars>>

\* cleanupOldAIData: finalSheet.getLastRow and getDataRange().getValues();
\* an empty sheet returns 'No data to clean'. The loop over the values read
\* deletes from the bottom row up.
CleanupRead(p) ==
    /\ pc[p] = "cleanup_read"
    /\ IF Len(final) = 0
       THEN MaintenanceEnds(p, Success(CLEANUP, 0))
       ELSE \E old \in SUBSET (1..Len(final)) :
                IF old = {}
                THEN MaintenanceEnds(p, Success(CLEANUP, 0))
                ELSE /\ frame' = [frame EXCEPT ![p].rows = bottomToTop(old)]
                     /\ MaintenanceGoesOn(p, "cleanup_delete")
    /\ UNCHANGED <<buffer, final, inflow, outflow>>

\* finalSheet.deleteRow(i + 1), by the index of the read.
CleanupDeleteRow(p) ==
    /\ pc[p] = "cleanup_delete"
    /\ final' = deleteRow(final, Head(frame[p].rows))
    /\ IF Tail(frame[p].rows) = <<>>
       THEN MaintenanceEnds(p, Success(CLEANUP, 0))
       ELSE /\ frame' = [frame EXCEPT ![p].rows = Tail(@)]
            /\ MaintenanceGoesOn(p, "cleanup_delete")
    /\ UNCHANGED <<buffer, inflow, outflow>>

\* sheetsToArchive, in the order of the loop.
archivedSheet(sheetName) ==
    CASE sheetName = "Buffer" -> buffer
      [] sheetName = "Inflow" -> inflow
      [] sheetName = "Outflow" -> outflow

nextToArchive(sheetName) ==
    CASE sheetName = "Buffer" -> "Inflow"
      [] sheetName = "Inflow" -> "Outflow"
      [] sheetName = "Outflow" -> ""

\* The rows whose date cell is filled: the ingestion fills Date Added with
\* the File URL, addToFlowSheet always writes Moved Date.
dated(sheetName) ==
    IF sheetName = "Buffer"
    THEN {r \in DOMAIN buffer : buffer[r].fileUrl # 0}
    ELSE DOMAIN archivedSheet(sheetName)

\* archiveSheetData returned for the sheet, or the sheet was skipped.
afterArchive(p, sheetName) ==
    IF nextToArchive(sheetName) = ""
    THEN MaintenanceEnds(p, Success(ARCHIVE, 0))
    ELSE /\ frame' = [frame EXCEPT ![p].sheet = nextToArchive(sheetName),
                                   ![p].rows = <<>>]
         /\ MaintenanceGoesOn(p, "archive_read")

\* archiveOldData: sheet.getLastRow and, in archiveSheetData,
\* getDataRange().getValues(); rowsToDelete is collected from the bottom row
\* up. Without a row to archive the loop takes the next sheet.
ArchiveRead(p) ==
    /\ pc[p] = "archive_read"
    /\ \E old \in SUBSET dated(frame[p].sheet) :
           IF old = {}
           THEN afterArchive(p, frame[p].sheet)
           ELSE /\ frame' = [frame EXCEPT ![p].rows = bottomToTop(old)]
                /\ MaintenanceGoesOn(p, "archive_insert")
    /\ UNCHANGED <<buffer, final, inflow, outflow>>

\* spreadsheet.insertSheet and the setValues that copy the rows to it.
ArchiveInsertSheet(p) ==
    /\ pc[p] = "archive_insert"
    /\ MaintenanceGoesOn(p, "archive_delete")
    /\ UNCHANGED <<buffer, final, inflow, outflow, frame>>

\* The name of the archive sheet ends with the day: a sheet archived twice
\* in a day makes insertSheet throw, archiveSheetData returns 0 and no row
\* is deleted.
ArchiveInsertSheetFails(p) ==
    /\ pc[p] = "archive_insert"
    /\ afterArchive(p, frame[p].sheet)
    /\ UNCHANGED <<buffer, final, inflow, outflow>>

\* sheet.deleteRow(rowIndex), by the index of the read.
ArchiveDeleteRow(p) ==
    /\ pc[p] = "archive_delete"
    /\ LET row == Head(frame[p].rows)
           sheetName == frame[p].sheet
       IN /\ buffer' = IF sheetName = "Buffer" THEN deleteRow(buffer, row) ELSE buffer
          /\ inflow' = IF sheetName = "Inflow" THEN deleteRow(inflow, row) ELSE inflow
          /\ outflow' = IF sheetName = "Outflow" THEN deleteRow(outflow, row) ELSE outflow
          /\ IF Tail(frame[p].rows) = <<>>
             THEN afterArchive(p, sheetName)
             ELSE /\ frame' = [frame EXCEPT ![p].rows = Tail(@)]
                  /\ MaintenanceGoesOn(p, "archive_delete")
    /\ UNCHANGED final

\* sheetsToClean, in the order of the loop.
nextToClean(sheetName) ==
    CASE sheetName = "Buffer" -> "Final"
      [] sheetName = "Final" -> "Inflow"
      [] sheetName = "Inflow" -> "Outflow"
      [] sheetName = "Outflow" -> ""

\* The rows whose cells are all empty: a Buffer row below the data that a
\* write has passed over. appendRow never adds one to the other sheets.
emptyRows(sheetName) ==
    IF sheetName = "Buffer"
    THEN {r \in DOMAIN buffer : buffer[r] = EmptyBufferRow}
    ELSE {}

\* cleanupEmptyRowsInSheet returned for the sheet.
afterClean(p, sheetName) ==
    IF nextToClean(sheetName) = ""
    THEN MaintenanceEnds(p, Success(OPTIMIZE, 0))
    ELSE /\ frame' = [frame EXCEPT ![p].sheet = nextToClean(sheetName),
                                   ![p].rows = <<>>]
         /\ MaintenanceGoesOn(p, "empty_read")

\* cleanupEmptyRowsInSheet: sheet.getLastRow and getDataRange().getValues();
\* the loop over the values read deletes from the bottom row up.
EmptyRowsRead(p) ==
    /\ pc[p] = "empty_read"
    /\ IF emptyRows(frame[p].sheet) = {}
       THEN afterClean(p, frame[p].sheet)
       ELSE /\ frame' = [frame EXCEPT ![p].rows = bottomToTop(emptyRows(frame[p].sheet))]
            /\ MaintenanceGoesOn(p, "empty_delete")
    /\ UNCHANGED <<buffer, final, inflow, outflow>>

\* sheet.deleteRow(i + 1), by the index of the read; the rows the function
\* finds empty are rows of the Buffer sheet.
EmptyRowsDeleteRow(p) ==
    /\ pc[p] = "empty_delete"
    /\ buffer' = deleteRow(buffer, Head(frame[p].rows))
    /\ IF Tail(frame[p].rows) = <<>>
       THEN afterClean(p, frame[p].sheet)
       ELSE /\ frame' = [frame EXCEPT ![p].rows = Tail(@)]
            /\ MaintenanceGoesOn(p, "empty_delete")
    /\ UNCHANGED <<final, inflow, outflow>>

MaintenanceStep(p) ==
    \/ \E op \in MaintenanceOps :
           \/ MaintenanceGetClient(p, op)
           \/ MaintenanceClientNotFound(p, op)
           \/ MaintenanceLockTimeout(p, op)
    \/ CleanupRead(p) \/ CleanupDeleteRow(p)
    \/ ArchiveRead(p) \/ ArchiveInsertSheet(p) \/ ArchiveInsertSheetFails(p)
    \/ ArchiveDeleteRow(p)
    \/ EmptyRowsRead(p) \/ EmptyRowsDeleteRow(p)

\* ------------------------------------------------------------------ Next
AIStep(p) ==
    AIGetClient(p) \/ AIClientNotFound(p) \/ AILockTimeout(p)
    \/ AIValidate(p) \/ AIValidateFails(p) \/ AIRead(p)
    \/ AIRestore(p) \/ AIFreshSuccess(p) \/ AIFreshFailure(p)
    \/ AIFileNotFound(p)
    \/ AIWriteChangedFilename(p) \/ AIWriteInvoiceNumber(p)
    \/ AIReadAttempts(p) \/ AIWriteAttempts(p)
    \/ AIDuplicate(p) \/ AINoDuplicate(p) \/ AIAddToFinalSheet(p)
    \/ MarkFailedStatus(p) \/ MarkFailedReason(p)
    \/ MarkFailedReadAttempts(p) \/ MarkFailedWriteAttempts(p)

PBCStep(p) ==
    PBCAcquire(p) \/ PBCLockTimeout(p) \/ PBCGetClient(p)
    \/ PBCClientNotFound(p) \/ PBCValidate(p) \/ PBCValidateFails(p)
    \/ PBCReadDeletions(p) \/ PBCReadReactivations(p) \/ PBCMissingReasons(p)
    \/ DeletionGetFile(p) \/ DeletionRemoveFromFolder(p) \/ DeletionFileNotFound(p)
    \/ DeletionReadSheet(p) \/ DeletionDeleteRow(p)
    \/ DeletionStatus(p) \/ DeletionReason(p)
    \/ ReactivationGetParents(p) \/ ReactivationAddFile(p) \/ ReactivationReadParents(p)
    \/ ReactivationRemoveFile(p) \/ ReactivationFileNotFound(p)
    \/ ReactivationStatus(p) \/ ReactivationReadReason(p)
    \/ ReactivationWriteReason(p) \/ ReactivationAttempts(p)
    \/ ReactivationRestore(p)
    \/ PBCFinish(p)

MoveStep(p) ==
    MoveAcquire(p) \/ MoveLockTimeout(p) \/ MoveGetClient(p)
    \/ MoveClientNotFound(p) \/ MoveRead(p)
    \/ MoveGetFolderStructureFails(p)
    \/ MoveAddToSheet(p) \/ MoveAddFile(p) \/ MoveRemoveFile(p)
    \/ MoveGetLastRow(p) \/ MoveDeleteRows(p)
    \/ MoveFinish(p) \/ MoveReturn(p)

\* What the operator and Drive do to the records.
External ==
    \/ \E r \in Rows : \E humanReason \in HumanReasons :
           OperatorMarksDeleted(r, humanReason)
    \/ \E r \in Rows : OperatorMarksActive(r)
    \/ \E fileUrl \in DOMAIN drive : DriveFileRemoved(fileUrl)

\* Concurrent executions of the four handlers; each is a sequence of calls
\* of the platform and the others run between any two of them.
Next ==
    \/ \E p \in Procs :
           \/ AIStep(p) \/ PBCStep(p) \/ MoveStep(p)
           \/ RetryFailedAIProcessing(p) \/ Return(p)
    \/ External

Spec == Init /\ [][Next]_vars

\* The steps an execution takes when no other execution is running: the
\* lock is free whenever it asks for it, so no tryLock times out.
Alone(p) ==
    \/ AIGetClient(p) \/ AIClientNotFound(p)
    \/ AIValidate(p) \/ AIValidateFails(p) \/ AIRead(p)
    \/ AIRestore(p) \/ AIFreshSuccess(p) \/ AIFreshFailure(p)
    \/ AIFileNotFound(p)
    \/ AIWriteChangedFilename(p) \/ AIWriteInvoiceNumber(p)
    \/ AIReadAttempts(p) \/ AIWriteAttempts(p)
    \/ AIDuplicate(p) \/ AINoDuplicate(p) \/ AIAddToFinalSheet(p)
    \/ MarkFailedStatus(p) \/ MarkFailedReason(p)
    \/ MarkFailedReadAttempts(p) \/ MarkFailedWriteAttempts(p)
    \/ PBCAcquire(p) \/ PBCGetClient(p) \/ PBCClientNotFound(p)
    \/ PBCValidate(p) \/ PBCValidateFails(p)
    \/ PBCReadDeletions(p) \/ PBCReadReactivations(p)
    \/ PBCMissingReasons(p)
    \/ DeletionGetFile(p) \/ DeletionRemoveFromFolder(p) \/ DeletionFileNotFound(p)
    \/ DeletionReadSheet(p) \/ DeletionDeleteRow(p)
    \/ DeletionStatus(p) \/ DeletionReason(p)
    \/ ReactivationGetParents(p) \/ ReactivationAddFile(p) \/ ReactivationReadParents(p)
    \/ ReactivationRemoveFile(p) \/ ReactivationFileNotFound(p)
    \/ ReactivationStatus(p) \/ ReactivationReadReason(p)
    \/ ReactivationWriteReason(p) \/ ReactivationAttempts(p)
    \/ ReactivationRestore(p)
    \/ PBCFinish(p)
    \/ MoveAcquire(p) \/ MoveGetClient(p) \/ MoveClientNotFound(p)
    \/ MoveRead(p) \/ MoveGetFolderStructureFails(p)
    \/ MoveAddToSheet(p) \/ MoveAddFile(p) \/ MoveRemoveFile(p)
    \/ MoveGetLastRow(p) \/ MoveDeleteRows(p) \/ MoveFinish(p)
    \/ MoveReturn(p)
    \/ RetryGetClient(p) \/ RetryClientNotFound(p) \/ RetryRead(p)
    \/ RetryStatus(p) \/ RetryAttempts(p) \/ RetryReason(p)
    \/ Return(p)

\* The invocations run one after the other; the operator edits at any time.
NextSeq == Alone(1) \/ External

SpecSeq == InitSeq /\ [][NextSeq]_vars

\* The executions that take the script lock with tryLock(30000), two of
\* processBufferChanges and moveFilesToInflowOutflow and one of
\* addClientWithAtomicTransaction, next to each other; no operator edits
\* the Buffer sheet, so no batch finds a deletion or a reactivation.
InitLock ==
    /\ Start(NumRowsConcurrent, 0) \/ Enriched(NumRowsConcurrent, 0)
    /\ quota = MaxInvocations
    /\ NoJob
    /\ OneClient \/ OneClientWithoutFolder

NextLock ==
    \/ \E p \in Procs :
           \/ PBCAcquire(p) \/ PBCLockTimeout(p) \/ PBCGetClient(p)
           \/ PBCClientNotFound(p) \/ PBCValidate(p) \/ PBCValidateFails(p)
           \/ PBCReadDeletions(p) \/ PBCReadReactivations(p) \/ PBCFinish(p)
           \/ MoveStep(p) \/ Return(p)
    \/ AddClientStep

SpecLock == InitLock /\ [][NextLock]_vars

\* One execution at a time: handlers of the documents, with the operator
\* between their steps, and then addClientWithAtomicTransaction for a new
\* client; an execution that has started runs on, as Apps Script runs a
\* handler to its return or its throw.
InitLive ==
    /\ Start(NumRowsConcurrent, MaxExternal) \/ Enriched(NumRowsConcurrent, MaxExternal)
    /\ quota = MaxInvocationsSeq
    /\ NoJob
    /\ OneClient \/ OneClientWithoutFolder

AddClientAlone ==
    \/ pc[1] = "idle" /\ creation.pc = "idle" /\ AddClient("beta", "clients/beta")
    \/ AddClientGoesOn

NextLive ==
    \/ creation.pc = "idle" /\ (Alone(1) \/ External)
    \/ AddClientAlone

\* A handler of the documents has started and has not ended.
Running(p) ==
    /\ pc[p] # "idle"
    /\ Alone(p)

SpecLive ==
    InitLive /\ [][NextLive]_vars /\ WF_vars(Running(1)) /\ WF_vars(AddClientGoesOn)

\* moveFilesToInflowOutflow next to processClientDocumentsWithAI, which
\* takes no lock of its own: execution 1 runs passes over the Buffer sheet,
\* both executions run moves of the files of the Final sheet, and a file may
\* be lost in Drive.  One file is enriched and a second one has just been
\* ingested; no operator edits the Buffer sheet, so no file is reactivated
\* and no pass restores the data of one.
InitClear ==
    /\ EnrichedThenIngested(1)
    /\ quota = MaxInvocations
    /\ NoJob
    /\ OneClient \/ OneClientWithoutFolder

NextClear ==
    \/ AIGetClient(1) \/ AIClientNotFound(1) \/ AILockTimeout(1)
    \/ AIValidate(1) \/ AIValidateFails(1) \/ AIRead(1)
    \/ AIFreshSuccess(1) \/ AIFreshFailure(1) \/ AIFileNotFound(1)
    \/ AIWriteChangedFilename(1) \/ AIWriteInvoiceNumber(1)
    \/ AIReadAttempts(1) \/ AIWriteAttempts(1)
    \/ AIDuplicate(1) \/ AINoDuplicate(1) \/ AIAddToFinalSheet(1)
    \/ MarkFailedStatus(1) \/ MarkFailedReason(1)
    \/ MarkFailedReadAttempts(1) \/ MarkFailedWriteAttempts(1)
    \/ \E p \in Procs : MoveStep(p) \/ Return(p)
    \/ \E fileUrl \in DOMAIN drive : DriveFileRemoved(fileUrl)

SpecClear == InitClear /\ [][NextClear]_vars

\* The maintenance calls next to the enrichment and the move: the files are
\* enriched, the operator runs cleanupOldAIData and archiveOldData while
\* passes and moves run and files are lost in Drive. Reactivations, and
\* with them AIRestore, are left to the specifications above.
InitMaintenance ==
    /\ Enriched(NumRows, MaxExternal)
    /\ quota = MaxInvocations
    /\ NoJob
    /\ OneClient

NextMaintenance ==
    \/ \E p \in Procs :
           AIStep(p) \/ MoveStep(p) \/ MaintenanceStep(p) \/ Return(p)
    \/ \E fileUrl \in DOMAIN drive : DriveFileRemoved(fileUrl)

SpecMaintenance == InitMaintenance /\ [][NextMaintenance]_vars

\* Two executions of addClientWithAtomicTransaction at a time.
NextCreate == AddClientStep \/ Preempt

SpecCreate == InitClients /\ [][NextCreate]_vars

\* Passes of processClientDocumentsWithAI one after the other and nothing
\* else: no operator edit, no retry, no reactivation, no loss in Drive.
InitQuiet ==
    /\ Start(NumRows, 0)
    /\ quota = MaxPasses + 1
    /\ NoJob
    /\ OneClient

\* The trigger has the result of the pass; the pass is counted.
PassReturns ==
    /\ pc[1] = "done"
    /\ result[1].op = AI_PASS
    /\ passes < MaxPasses
    /\ pc' = [pc EXCEPT ![1] = "idle"]
    /\ result' = [result EXCEPT ![1] = NoResult]
    /\ passes' = passes + 1
    /\ UNCHANGED <<sheets, lock, locals, enriched, external, failedRows, waiting,
                   quota>>
    /\ UNCHANGED <<jobVars, tenantVars>>

NextQuiet ==
    \/ AIGetClient(1) \/ AIValidate(1) \/ AIRead(1)
    \/ AIFreshSuccess(1) \/ AIFreshFailure(1)
    \/ AIWriteChangedFilename(1) \/ AIWriteInvoiceNumber(1)
    \/ AIReadAttempts(1) \/ AIWriteAttempts(1)
    \/ AIDuplicate(1) \/ AINoDuplicate(1) \/ AIAddToFinalSheet(1)
    \/ MarkFailedStatus(1) \/ MarkFailedReason(1)
    \/ MarkFailedReadAttempts(1) \/ MarkFailedWriteAttempts(1)
    \/ PassReturns

SpecQuiet == InitQuiet /\ [][NextQuiet]_vars

\* A step that writes a Status cell.
StatusWrite(p) ==
    MarkFailedStatus(p) \/ DeletionStatus(p) \/ ReactivationStatus(p) \/ RetryStatus(p)

\* ============================================================ properties
\* The rows of the three downstream sheets for one File URL.
downstream(fileUrl) ==
    <<rowsOf(final, fileUrl), rowsOf(inflow, fileUrl), rowsOf(outflow, fileUrl)>>

\* Everything the system keeps about one record.
recordView(r) == <<buffer[r], downstream(FileUrl(r)), drive[r]>>

\* The row indexes of a list of detected items.
rowIndexes(items) == {items[i].rowIndex : i \in 1..Len(items)}

\* The positions of processFileDeletion and of processFileReactivation after
\* their first step.
DeletionPcs == {"del_read", "del_row", "del_status", "del_reason"}

ReactivationPcs == {"react_status", "react_reason", "react_reason_write",
                    "react_attempts", "react_restore"}

\* The positions of a batch invocation between its tryLock and its final
\* releaseLock.
BatchPcs == {"pbc_client", "pbc_validate", "pbc_deletions", "pbc_reactivations",
             "pbc_process",
             "move_client", "move_read", "move_process",
             "move_file", "move_remove", "move_clear", "move_finish",
             "move_return"}
            \cup DeletionPcs \cup ReactivationPcs

\* The invocation is inside processFileReactivation for row r.
reactivating(p, r) ==
    /\ pc[p] \in ReactivationPcs
    /\ Head(reactivationData[p]).rowIndex = r

\* C1: in every reachable state a Buffer row whose status is Deleted has no
\* row with its File URL in the Final, the Inflow or the Outflow sheet.
C1_DeletedHasNoDownstreamRow ==
    \A r \in Rows :
        buffer[r].status = DELETED =>
            downstream(FileUrl(r)) = <<(<<>>), (<<>>), (<<>>)>>

\* C2: two batch invocations are never both between their tryLock and their
\* final releaseLock, so the second cannot read or change the sheets before
\* the first has finished.
C2_BatchesMutuallyExclusive ==
    \A p \in Procs : \A q \in Procs :
        (p # q) => ~(pc[p] \in BatchPcs /\ pc[q] \in BatchPcs)

\* C3: in every reachable state the Final sheet has at most one row per
\* File URL.
C3_FinalUniquePerUrl ==
    \A i \in 1..Len(final) : \A j \in 1..Len(final) :
        final[i].fileUrl = final[j].fileUrl => i = j

\* C4: in every reachable state a document has at most one row in the
\* Inflow and the Outflow sheet together.
C4_AtMostOneTerminalPlacement ==
    \A r \in Rows :
        Len(rowsOf(inflow, FileUrl(r))) + Len(rowsOf(outflow, FileUrl(r))) <= 1

\* C5: once an enrichment pass has succeeded for a record, no pass calls
\* the AI service for it, until a retry or a reactivation resets the record.
C5_EnrichedOnce ==
    [][\A p \in Procs :
          (AICall(p) /\ (AIFreshSuccess(p) \/ AIFreshFailure(p)))
              => ~enriched[Head(activeFiles[p]).rowIndex]]_vars

\* C6: a row whose deletion was processed (status Deleted, reason starting
\* 'Deleted:') is not among getFilesMarkedForDeletion, and no step of a
\* processBufferChanges run changes its Buffer row, its rows in the Final,
\* Inflow and Outflow sheets, or its file's folders.
processedDeletion(r) ==
    buffer[r].status = DELETED /\ startsWith(buffer[r].reason, "Deleted:")

C6_DeletionIdempotent ==
    [][\A r \in Rows :
          processedDeletion(r) =>
              /\ r \notin rowIndexes(getFilesMarkedForDeletion(buffer))
              /\ (\E p \in Procs : PBCStep(p)) => recordView(r)' = recordView(r)]_vars

\* Row 2 was deleted by an earlier run, and a later run is at the deletion
\* of row 1.
C6_Witness ==
    /\ 2 \in Rows
    /\ processedDeletion(2)
    /\ pc[1] = "pbc_process"
    /\ deletionData[1] # <<>>
    /\ Head(deletionData[1]).rowIndex = 1

\* C7: a reactivated row (status Active, reason starting 'Reactivated on')
\* is not among getFilesMarkedForReactivation, and once its reactivation is
\* over no step of a processBufferChanges run changes it or adds a row for
\* it to the Final sheet.
processedReactivation(r) ==
    buffer[r].status = ACTIVE /\ startsWith(buffer[r].reason, "Reactivated on")

C7_ReactivationIdempotent ==
    [][\A r \in Rows :
          processedReactivation(r) =>
              /\ r \notin rowIndexes(getFilesMarkedForReactivation(buffer))
              /\ \A p \in Procs :
                    (PBCStep(p) /\ ~reactivating(p, r))
                        => recordView(r)' = recordView(r)]_vars

\* A row was reactivated and restored to the Final sheet, an AI pass has
\* run over it since, and a later processBufferChanges run has done its
\* detection.
C7_Witness ==
    \E r \in Rows :
        /\ processedReactivation(r)
        /\ buffer[r].attempts > 0
        /\ hasUrl(final, FileUrl(r))
        /\ pc[1] = "pbc_process"

\* C8: the Final row restored by a reactivation has the transaction type,
\* date, vendor, invoice number and amount the record was enriched with.
C8_RestoredKeepsClassification ==
    \A i \in 1..Len(final) :
        final[i].documentType = "restored" =>
            LET v == validatedData(final[i].fileUrl)
            IN /\ final[i].inflowOutflowStatus = v.transactionType
               /\ final[i].date = v.date
               /\ final[i].vendorName = v.vendorName
               /\ final[i].invoiceNumber = v.invoiceNumber
               /\ final[i].amount = v.amount

\* C9: a row whose Processing Attempts equals MAX_PROCESSING_ATTEMPTS is
\* not in the result of getActiveFilesFromBuffer, whatever its status.
C9_CappedRowNotInWorkingSet ==
    \A r \in Rows :
        buffer[r].attempts = MAX_PROCESSING_ATTEMPTS =>
            r \notin rowIndexes(getActiveFilesFromBuffer(buffer))

\* An Active row has reached the cap.
C9_Witness ==
    \E r \in Rows :
        buffer[r].status = ACTIVE /\ buffer[r].attempts = MAX_PROCESSING_ATTEMPTS

\* C10: in every reachable state every row has Processing Attempts at most
\* MAX_PROCESSING_ATTEMPTS.
C10_AttemptsCapped ==
    \A r \in Rows : buffer[r].attempts <= MAX_PROCESSING_ATTEMPTS

\* The creation is in its catch block with nothing in createdResources.
rollsBackNothing ==
    /\ creation.pc \in {"rollback_row", "rollback_spreadsheet", "rollback_folder"}
    /\ creation.made = {}
    /\ creation.masterSheetRow = 0

\* C11: a processBufferChanges, moveFilesToInflowOutflow or
\* addClientWithAtomicTransaction execution whose tryLock times out ends
\* with SYSTEM_ERROR, changes no sheet, no folder and no spreadsheet, does
\* nothing further (the catch block of the creation finds nothing to roll
\* back), and leaves the lock with the execution that holds it.
C11_LockTimeoutFailsCleanly ==
    [][/\ \A p \in Procs :
             (PBCLockTimeout(p) \/ MoveLockTimeout(p)) =>
                 /\ result'[p].status = "SYSTEM_ERROR"
                 /\ pc'[p] = "done"
                 /\ UNCHANGED <<sheets, locals, master, cloud>>
                 /\ lock \notin {0, p}
                 /\ lock' = lock
       /\ \A name \in ClientNames : \A gmailLabel \in GmailLabels :
             AddClientLockTimeout(name, gmailLabel) =>
                 /\ creation'.error = "SYSTEM_ERROR"
                 /\ rollsBackNothing'
                 /\ UNCHANGED <<sheets, master, cloud>>
                 /\ lock \notin {0, CreatorId}
                 /\ lock' = lock
       /\ (rollsBackNothing /\ creation.error = "SYSTEM_ERROR" /\ AddClientStep) =>
             /\ UNCHANGED <<sheets, master, cloud, lock>>
             /\ creation'.error = "SYSTEM_ERROR"
             /\ rollsBackNothing' \/ creation'.pc = "thrown"]_vars

\* A batch and a creation have failed on the lock that another batch holds.
C11_Witness ==
    \E p \in Procs :
        /\ pc[p] = "done"
        /\ result[p].op \in {PBC, MOVE}
        /\ result[p].status = "SYSTEM_ERROR"
        /\ creation.pc = "thrown"
        /\ creation.error = "SYSTEM_ERROR"
        /\ creation.made = {}
        /\ lock \notin {0, p, CreatorId}

\* C12: an execution that holds the script lock gives it up, and an
\* execution that has ended - by return, by early return or by a thrown
\* error - never holds it: the handlers of the documents and
\* addClientWithAtomicTransaction.
C12_LockReleasedOnEveryExit ==
    /\ \A id \in Procs \cup {CreatorId} : (lock = id) ~> (lock # id)
    /\ [](\A p \in Procs : pc[p] \in {"idle", "done"} => lock # p)
    /\ [](creation.pc \in {"idle", "thrown", "returned"} => lock # CreatorId)

\* processBufferChanges has thrown INVALID_INPUT for a client whose root
\* folder is not to be found, after it had taken the lock; nothing holds
\* the lock.
C12_Witness ==
    /\ pc[1] = "done"
    /\ result[1] = Thrown(PBC, "INVALID_INPUT")
    /\ ~accessible(client)
    /\ lock = 0

\* C13: processFileDeletion marks the Buffer row Deleted only after the file
\* has left the category folders and the Final, Inflow and Outflow rows are
\* gone; when a step before the row update fails, the row is left Active or
\* Failed, not Deleted.
C13_DeletionOrdering ==
    [][\A p \in Procs :
          /\ DeletionStatus(p) =>
                LET r == Head(deletionData[p]).rowIndex
                IN /\ downstream(FileUrl(r)) = <<(<<>>), (<<>>), (<<>>)>>
                   /\ drive[r].parents \cap {"Inflow", "Outflow"} = {}
          /\ DeletionFileNotFound(p) =>
                buffer'[Head(deletionData[p]).rowIndex].status \in {ACTIVE, FAILED}]_vars

\* C14: a reactivation restores the file to the Buffer folder before it
\* rewrites the Working row: the file is in the Buffer folder when the first
\* cell of the row is written; when the file cannot be restored, no sheet
\* and no folder changes, the failure is counted, and a row that was waiting
\* for reactivation is found again by the next pass.
C14_ReactivationOrdering ==
    [][\A p \in Procs :
          /\ ReactivationAddFile(p) =>
                /\ fileOf(Head(reactivationData[p]).fileUrl).exists
                      => "Buffer" \in drive'[Head(reactivationData[p]).fileUrl].parents
                /\ UNCHANGED <<buffer, final, inflow, outflow>>
          /\ (\/ ReactivationGetParents(p) \/ ReactivationReadParents(p)
              \/ ReactivationRemoveFile(p)) =>
                /\ "Buffer" \in fileOf(Head(reactivationData[p]).fileUrl).parents
                      => "Buffer" \in drive'[Head(reactivationData[p]).fileUrl].parents
                /\ UNCHANGED <<buffer, final, inflow, outflow>>
          /\ (/\ pc[p] \in {"react_add", "react_parents", "react_remove"}
              /\ ~fileOf(Head(reactivationData[p]).fileUrl).exists
              /\ pc'[p] # pc[p]) =>
                LET r == Head(reactivationData[p]).rowIndex
                IN /\ UNCHANGED sheets
                   /\ errorCount'[p] = errorCount[p] + 1
                   /\ (r \in rowIndexes(getFilesMarkedForReactivation(buffer))
                         => r \in rowIndexes(getFilesMarkedForReactivation(buffer')))
          /\ ReactivationStatus(p) =>
                "Buffer" \in fileOf(Head(reactivationData[p]).fileUrl).parents
          /\ ReactivationFileNotFound(p) =>
                LET r == Head(reactivationData[p]).rowIndex
                IN /\ UNCHANGED sheets
                   /\ errorCount'[p] = errorCount[p] + 1
                   /\ (r \in rowIndexes(getFilesMarkedForReactivation(buffer))
                         => r \in rowIndexes(getFilesMarkedForReactivation(buffer')))]_vars

\* A reactivation has just failed on a missing file and its row still waits.
C14_Witness ==
    /\ pc[1] = "pbc_process"
    /\ deletionData[1] = <<>>
    /\ reactivationData[1] = <<>>
    /\ errorCount[1] = 1
    /\ \E r \in Rows :
          /\ ~drive[r].exists
          /\ r \in rowIndexes(getFilesMarkedForReactivation(buffer))
          /\ \A q \in Rows \ {r} : buffer[q].reason = <<>>

\* C15: once a deletion has been applied to a record (the last cell of its
\* Working row is written), its file is in the Buffer folder and in neither
\* the Inflow nor the Outflow folder.
C15_DeletedFileInBufferFolder ==
    [][\A p \in Procs :
          DeletionReason(p) =>
              LET r == Head(deletionData[p]).rowIndex
              IN /\ "Buffer" \in drive'[r].parents
                 /\ drive'[r].parents \cap {"Inflow", "Outflow"} = {}]_vars

\* The steps of processFileDeletion.
DeletionStep(p) ==
    \/ DeletionGetFile(p) \/ DeletionRemoveFromFolder(p) \/ DeletionFileNotFound(p)
    \/ DeletionReadSheet(p) \/ DeletionDeleteRow(p)
    \/ DeletionStatus(p) \/ DeletionReason(p)

\* C16: a deletion is applied only with a human reason that is not blank.
\* Every row marked Deleted with an empty or whitespace-only reason is read
\* as a deletion request without a reason; a batch that read such a request
\* does nothing but fail with INVALID_INPUT, changing no sheet and no folder;
\* every deletion that is applied carries a non-blank reason; and no
\* deletion step changes the row, the downstream rows or the folders of a
\* record that is marked Deleted without a reason.
blankDeletion(r) == buffer[r].status = DELETED /\ trim(buffer[r].reason) = <<>>

C16_NoDeletionWithoutReason ==
    [][\A p \in Procs :
          /\ PBCReadDeletions(p) =>
                \A r \in Rows : blankDeletion(r) =>
                    /\ r \in rowIndexes(deletionData'[p])
                    /\ missingReasons(deletionData'[p])
          /\ (PBCStep(p) /\ pc[p] = "pbc_reactivations"
                /\ \E i \in 1..Len(deletionData[p]) :
                      trim(deletionData[p][i].reason) = <<>>) =>
                /\ result'[p] = Thrown(PBC, "INVALID_INPUT")
                /\ pc'[p] = "done"
                /\ UNCHANGED sheets
          /\ DeletionStep(p) => trim(Head(deletionData[p]).reason) # <<>>
          /\ DeletionReason(p) =>
                LET item == Head(deletionData[p])
                IN buffer'[item.rowIndex].reason = <<"Deleted:">> \o item.reason \o <<TS>>
          /\ DeletionStep(p) =>
                \A r \in Rows :
                    blankDeletion(r) => recordView(r)' = recordView(r)]_vars

\* C17: a record that fails does not end its batch.  In
\* processClientDocumentsWithAI a failed file is marked, then taken off the
\* list, the error is counted, and the pass goes on with the files that
\* remain or, at the end of the list, returns success with the count; in
\* processBufferChanges a failed deletion or reactivation is taken off its
\* list, the error is counted, the batch stays in its loop with the items
\* that remain, and the batch returns success with the count.
C17_RecordFailureDoesNotAbort ==
    [][\A p \in Procs :
          /\ (AIFreshFailure(p) \/ AIFileNotFound(p)) =>
                /\ activeFiles'[p] = activeFiles[p]
                /\ pc'[p] = "fail_status"
          /\ MarkFailedWriteAttempts(p) =>
                /\ activeFiles'[p] = Tail(activeFiles[p])
                /\ IF activeFiles'[p] # <<>>
                   THEN /\ pc'[p] = "ai_file"
                        /\ errorCount'[p] = errorCount[p] + 1
                   ELSE result'[p] = [op |-> AI_PASS, status |-> "success",
                                      errorCount |-> errorCount[p] + 1]
          /\ DeletionFileNotFound(p) =>
                /\ deletionData'[p] = Tail(deletionData[p])
                /\ reactivationData'[p] = reactivationData[p]
                /\ pc'[p] = "pbc_process"
                /\ errorCount'[p] = errorCount[p] + 1
          /\ ReactivationFileNotFound(p) =>
                /\ reactivationData'[p] = Tail(reactivationData[p])
                /\ pc'[p] = "pbc_process"
                /\ errorCount'[p] = errorCount[p] + 1
          /\ PBCFinish(p) =>
                result'[p] = [op |-> PBC, status |-> "success",
                              errorCount |-> errorCount[p]]]_vars

\* One pass failed on the first file and enriched the second, and returned
\* success with one error.
C17_Witness ==
    /\ pc[1] = "done"
    /\ result[1] = [op |-> AI_PASS, status |-> "success", errorCount |-> 1]
    /\ external = MaxExternalSeq
    /\ buffer[1].attempts = 1 /\ ~enriched[1]
    /\ buffer[2].attempts = 1 /\ enriched[2]

\* C18: a moveFilesToInflowOutflow batch clears the Final sheet if and only
\* if no row of the batch failed to move: with no error the batch goes
\* through clearFinalSheet and its deleteRows leaves no data row; with an
\* error no step of the batch changes the Final sheet; and neither the
\* clear nor the return touches the rows added to the Inflow and Outflow
\* sheets or the files that were moved.  A batch that found no row leaves
\* the Final sheet alone.
C18_FinalClearedIffNoError ==
    [][\A p \in Procs :
          /\ MoveDeleteRows(p) =>
                /\ errorCount[p] = 0
                /\ final' = <<>>
          /\ MoveFinish(p) =>
                /\ errorCount[p] = 0 <=> pc[p] = "move_finish"
                /\ final' = final
          /\ (MoveGetLastRow(p) \/ MoveDeleteRows(p) \/ MoveFinish(p)) =>
                UNCHANGED <<inflow, outflow, drive, buffer>>
          /\ (MoveStep(p) /\ final' # final) => MoveDeleteRows(p)
          /\ MoveReturn(p) => final' = final]_vars

\* C19: in every state in which no batch is running, no File URL has a row
\* in the Final sheet and a row in the Inflow or the Outflow sheet.
C19_NotInFinalAndCategory ==
    (\A p \in Procs : pc[p] \in {"idle", "done"}) =>
        \A r \in Rows :
            ~(/\ hasUrl(final, FileUrl(r))
              /\ hasUrl(inflow, FileUrl(r)) \/ hasUrl(outflow, FileUrl(r)))

\* The writes of updateBufferSheetWithAI after a successful AI call, cell by
\* cell: the derived name, the invoice number, attempts one more; the
\* other cells of the row, Status and Reason among them, stay.
enrichedWorkingRow(p) ==
    LET fileData == Head(activeFiles[p])
        r == fileData.rowIndex
        aiData == freshAIData(fileData)
    IN /\ AIWriteChangedFilename(p) =>
             buffer' = [buffer EXCEPT ![r].changedFilename = aiData.newFilename]
       /\ AIWriteInvoiceNumber(p) =>
             buffer' = [buffer EXCEPT ![r].invoiceNumber = aiData.invoiceNumber]
       /\ AIReadAttempts(p) => buffer' = buffer
       /\ AIWriteAttempts(p) =>
             buffer' = [buffer EXCEPT ![r].attempts = buffer[r].attempts + 1]
       /\ (AIDuplicate(p) \/ AINoDuplicate(p) \/ AIAddToFinalSheet(p)) => buffer' = buffer

\* The invocation is in the steps that follow a successful AI call.
afterFreshSuccess(p) ==
    /\ pc[p] \in {"ai_name", "ai_invoice", "ai_attempts", "ai_attempts_write",
                  "ai_duplicate", "ai_final"}
    /\ ~restores(Head(activeFiles[p]))

\* The success is over for the file.
successDone(p) == AIDuplicate(p) \/ AIAddToFinalSheet(p)

\* C20 (amended): as above for the Working row; the Final sheet gets the
\* record's row with the enriched fields appended unless it already has a
\* row for the File URL, and is then left as it is.
C20_SuccessWritesFinalUnlessDuplicate ==
    [][\A p \in Procs :
          afterFreshSuccess(p) =>
              /\ enrichedWorkingRow(p)
              /\ successDone(p) =>
                    final' = IF hasUrl(final, Head(activeFiles[p]).fileUrl) THEN final
                             ELSE Append(final, finalRow(Head(activeFiles[p]),
                                                         freshAIData(Head(activeFiles[p]))))]_vars

\* The steps of markFileAsFailed.
MarkFailedStep(p) ==
    \/ MarkFailedStatus(p) \/ MarkFailedReason(p)
    \/ MarkFailedReadAttempts(p) \/ MarkFailedWriteAttempts(p)

\* C21: when the enrichment of a record fails (the AI call fails or the file
\* is not in Drive) the record's status is set to Failed, its reason to
\* 'AI Processing Failed: <message> (<timestamp>)', its attempts to one
\* more, and the Final sheet is left as it is; a Failed record is not in the
\* working set of an enrichment pass, and no step of a pass or a batch takes
\* it out of Failed.
C21_FailureMarksFailed ==
    [][/\ \A p \in Procs :
            /\ (AIFreshFailure(p) \/ AIFileNotFound(p)) =>
                  /\ pc'[p] = "fail_status"
                  /\ UNCHANGED sheets
            /\ MarkFailedStatus(p) =>
                  buffer' = [buffer EXCEPT ![Head(activeFiles[p]).rowIndex].status = FAILED]
            /\ MarkFailedReason(p) =>
                  LET r == Head(activeFiles[p]).rowIndex
                  IN /\ Len(buffer'[r].reason) = 3
                     /\ buffer'[r].reason[1] = "AI Processing Failed:"
                     /\ buffer'[r].reason[2] \in {"AI error", "File not found in Drive"}
                     /\ buffer'[r].reason[3] = TS
                     /\ buffer' = [buffer EXCEPT ![r].reason = buffer'[r].reason]
            /\ MarkFailedWriteAttempts(p) =>
                  buffer' = [buffer EXCEPT ![Head(activeFiles[p]).rowIndex].attempts = @ + 1]
            /\ MarkFailedStep(p) => final' = final
       /\ \A r \in Rows :
            buffer[r].status = FAILED =>
                /\ r \notin rowIndexes(getActiveFilesFromBuffer(buffer))
                /\ (\E p \in Procs : AIStep(p) \/ PBCStep(p) \/ MoveStep(p)) =>
                       buffer'[r].status = FAILED]_vars

\* A pass is at its first file while the second row is Failed from an
\* earlier pass and is not in the working set.
C21_Witness ==
    /\ pc[1] = "ai_file"
    /\ Len(activeFiles[1]) = 1
    /\ Head(activeFiles[1]).rowIndex = 1
    /\ buffer[2].status = FAILED
    /\ buffer[2].attempts = 1
    /\ startsWith(buffer[2].reason, "AI Processing Failed:")

\* The record the retry is writing.
retried(p) == Head(failedRows[p])

\* C22: retryFailedAIProcessing sets every Failed row to Active with
\* attempts 0 and the reason 'Retry requested on <timestamp>', and leaves
\* every cell of every row that is not Failed as it is: the rows it takes
\* are the Failed ones, the row whose Status it sets to Active is Failed,
\* and the row whose attempts and reason it then writes is the one it has
\* set to Active.
C22_RetryResetsOnlyFailed ==
    [][\A p \in Procs :
          /\ RetryRead(p) =>
                /\ failedRows'[p] = SelectSeq(BufferRows(buffer),
                                              LAMBDA r : buffer[r].status = FAILED)
                /\ buffer' = buffer
          /\ RetryStatus(p) =>
                /\ buffer[retried(p)].status = FAILED
                /\ buffer' = [buffer EXCEPT ![retried(p)].status = ACTIVE]
          /\ RetryAttempts(p) =>
                /\ buffer[retried(p)].status = ACTIVE
                /\ buffer' = [buffer EXCEPT ![retried(p)].attempts = 0]
          /\ RetryReason(p) =>
                /\ buffer[retried(p)].status = ACTIVE
                /\ buffer' = [buffer EXCEPT ![retried(p)].reason =
                                                <<"Retry requested on", TS>>]]_vars

\* The record a reactivation is for.
reactivated(p) == Head(reactivationData[p]).rowIndex

\* The writes of a reactivation whose file is in Drive: the file is put in
\* the Buffer folder, the Status cell is set to Active, and the Reason cell
\* to 'Reactivated on <timestamp>. Previous: ' followed by the cell as it
\* was.
reactivationApplied(p) ==
    /\ (ReactivationAddFile(p) /\ drive[reactivated(p)].exists) =>
          "Buffer" \in drive'[reactivated(p)].parents
    /\ ReactivationStatus(p) =>
          buffer' = [buffer EXCEPT ![reactivated(p)].status = ACTIVE]
    /\ ReactivationWriteReason(p) =>
          buffer' = [buffer EXCEPT ![reactivated(p)].reason =
                                       <<"Reactivated on", TS, "Previous:">> \o @]

\* C23 (file in Drive): every detected reactivation whose file is in Drive,
\* with or without reconstructable enriched fields, sets the row Active with
\* the reason 'Reactivated on <timestamp>. Previous: <old reason>' and puts
\* the file in the Buffer folder; one whose file is not in Drive leaves the
\* row and the file as they are.
C23_ReactivationAppliedIfFileExists ==
    [][\A p \in Procs :
          /\ reactivationApplied(p)
          /\ ReactivationFileNotFound(p) => UNCHANGED <<buffer, drive>>]_vars

\* A reactivated row whose enriched fields can be reconstructed: derived
\* name and invoice number not empty, derived name not the original name.
reactivatedWithData(r) ==
    /\ processedReactivation(r)
    /\ buffer[r].changedFilename # NoName
    /\ buffer[r].changedFilename # OriginalFilename(r)
    /\ buffer[r].invoiceNumber # <<>>

\* C24: a reactivation with reconstructable data appends to the Final sheet
\* a row built from the derived name, and no AI call is made for the
\* record: the reactivation makes none, and no step of an enrichment pass
\* that reaches the AI service is for a row that is reactivated with data.
C24_ReactivatedWithDataNoAICall ==
    [][\A p \in Procs :
          /\ ReactivationAttempts(p) =>
                (pc'[p] = "react_restore" <=> hasValidAIData(Head(reactivationData[p])))
          /\ ReactivationRestore(p) =>
                LET item == Head(reactivationData[p])
                IN /\ hasValidAIData(item)
                   /\ final' = Append(final, restoredRow(item))
                   /\ final'[Len(final')].fileName = item.changedFilename
                   /\ final'[Len(final')].fileUrl = item.fileUrl
          /\ pc[p] \in ReactivationPcs => pc'[p] \in ReactivationPcs \cup {"pbc_process"}
          /\ (AIFreshSuccess(p) \/ AIFreshFailure(p)) =>
                ~reactivatedWithData(Head(activeFiles[p]).rowIndex)]_vars

\* A reactivated record with data has been through an enrichment pass,
\* which restored its data: attempts is 1 again and it has its Final row.
C24_Witness ==
    \E r \in Rows :
        /\ reactivatedWithData(r)
        /\ buffer[r].attempts = 1
        /\ Len(rowsOf(final, FileUrl(r))) = 1
        /\ \A p \in Procs : pc[p] = "idle"

\* A reactivated row whose enriched fields cannot be reconstructed.
reactivatedWithoutData(r) ==
    /\ processedReactivation(r)
    /\ \/ buffer[r].changedFilename = NoName
       \/ buffer[r].changedFilename = OriginalFilename(r)
       \/ buffer[r].invoiceNumber = <<>>

\* C25: a reactivation without reconstructable data sets attempts to 0 on
\* the row it has set Active and adds no Final row; a row in that state is in
\* the working set of an enrichment pass, and the pass does not restore data
\* for it: its step for the row is a fresh AI enrichment (or the failure to
\* fetch the file for one).
C25_ReactivatedWithoutDataIsReprocessed ==
    [][\A p \in Procs :
          /\ (ReactivationAttempts(p) /\ ~hasValidAIData(Head(reactivationData[p]))) =>
                /\ buffer' = [buffer EXCEPT ![reactivated(p)].attempts = 0]
                /\ final' = final
                /\ pc'[p] = "pbc_process"
                /\ buffer'[reactivated(p)].status = ACTIVE =>
                      reactivated(p) \in rowIndexes(getActiveFilesFromBuffer(buffer'))
          /\ \A r \in Rows :
                (reactivatedWithoutData(r) /\ buffer[r].attempts < MAX_PROCESSING_ATTEMPTS) =>
                    /\ r \in rowIndexes(getActiveFilesFromBuffer(buffer))
                    /\ (pc[p] = "ai_file" /\ Head(activeFiles[p]).rowIndex = r) =>
                          /\ ~AIRestore(p)
                          /\ ENABLED (AIFreshSuccess(p) \/ AIFileNotFound(p))]_vars

\* A record reactivated without data has been enriched afresh by the next
\* pass.
C25_Witness ==
    \E r \in Rows :
        /\ processedReactivation(r)
        /\ buffer[r].attempts = 1
        /\ buffer[r].changedFilename =
               generateFilenameFromAIData(validatedData(r), OriginalFilename(r))
        /\ rowsOf(final, FileUrl(r)) =
               <<finalRow([fileUrl |-> FileUrl(r), originalFilename |-> OriginalFilename(r)],
                          freshAIData([fileUrl |-> FileUrl(r),
                                       originalFilename |-> OriginalFilename(r)]))>>
        /\ validatedData(r).transactionType = OUTFLOW

\* ------------------------------------------------------------------- C28
\* The content type is an entry of the supported list, whatever its case.
inSupportedList(mimeType) ==
    /\ Len(mimeType) = 1
    /\ toLowerCase(mimeType[1]) \in supportedTypes

\* C28: when the file is larger than MAX_FILE_SIZE_FOR_AI or its content
\* type is not in the supported list, callGeminiAPI is never invoked for it
\* and the record is marked Failed.
C28_FailFastWithoutAICall ==
    (job.size > MAX_FILE_SIZE_FOR_AI \/ ~inSupportedList(job.mimeType))
        => /\ invocations = 0
           /\ jobPc = "done" => buffer[1].status = FAILED

\* ------------------------------------------------------------------- C29
\* C29: when the operation wrapped by retryWithBackoff raises INVALID_INPUT,
\* the operation is invoked exactly once and no backoff sleep happens.
C29_InvalidInputNotRetried ==
    lastError = "INVALID_INPUT" => invocations = 1 /\ sleeps = <<>>

\* ------------------------------------------------------------------- C30
processFileReturned == jobPc \in {"returned", "done"}

\* C30: for maxRetries >= 1, retryWithBackoff invokes the operation at most
\* maxRetries times; after the first success it returns without invoking it
\* again; every sleep is followed by another attempt, so none comes after
\* the last one; when every attempt failed, all maxRetries attempts were
\* made and the error thrown is the one of the last invocation; and the
\* loop ends.
C30_RetryIsBounded ==
    /\ [](invocations <= job.maxRetries)
    /\ [](Len(sleeps) <= invocations)
    /\ [][aiResult.success => invocations' = invocations /\ sleeps' = sleeps]_vars
    /\ [][invocations' > invocations /\ lastError' = lastError /\ attempt' = attempt
            => aiResult'.success /\ processFileReturned']_vars
    /\ [](processFileReturned /\ invocations > 0
            => Len(sleeps) = invocations - 1)
    /\ [](processFileReturned /\ invocations > 0 /\ ~aiResult.success
            => invocations = job.maxRetries /\ aiResult.error = lastError)
    /\ (jobPc = "retry") ~> processFileReturned

\* Three attempts failed with two sleeps between them, and the error of the
\* third is the one reported.
C30_Witness ==
    /\ jobPc = "done"
    /\ job.maxRetries = MAX_RETRIES
    /\ invocations = MAX_RETRIES
    /\ Len(sleeps) = MAX_RETRIES - 1
    /\ ~aiResult.success
    /\ aiResult.error = "PROCESSING_FAILED"
    /\ buffer[1].status = FAILED

\* ------------------------------------------------------------------- C26
\* The folders, spreadsheets and master rows that exist and were made by
\* the creation.
leftBehind ==
    [folders |-> cloud.folders \cap creation.made,
     spreadsheets |-> {f \in cloud.spreadsheets : f.id \in creation.made},
     rows |-> {i \in DOMAIN master :
                  \/ master[i].rootFolderId \in creation.made
                  \/ master[i].spreadsheetId \in creation.made}]

\* C26: when addClientWithAtomicTransaction has failed and rethrown its
\* error, nothing it created is left: no folder, no spreadsheet, no master
\* row.
C26_FailedCreationLeavesNothing ==
    creation.pc = "thrown"
        => leftBehind = [folders |-> {}, spreadsheets |-> {}, rows |-> {}]

\* ------------------------------------------------------------------- C27
\* processAllClientsWithAI has run over the clients that are Active, and
\* over no other.
ranOverActive ==
    /\ lastRun'.ran
    /\ \A i \in DOMAIN master :
           (complete(master[i]) /\ master[i].status = ACTIVE)
               <=> \E k \in DOMAIN lastRun'.clients : lastRun'.clients[k] = master[i].name

\* The row updateClient is about to write is a row of the client it was
\* called for.
writesOwnRow ==
    /\ update.row \in DOMAIN master
    /\ toLowerCase(master[update.row].name) = toLowerCase(update.name)

\* The writes updateClient makes for a status: the Status cell and the Last
\* Modified cell of the client's row, and nothing else in the sheet or in
\* Drive.
updateClientWrites ==
    /\ UpdateClientStatus =>
          /\ writesOwnRow
          /\ master' = [master EXCEPT ![update.row].status = update.status]
          /\ cloud' = cloud
    /\ UpdateClientLastModified =>
          /\ writesOwnRow
          /\ master' = [master EXCEPT ![update.row].lastModified = now]
          /\ cloud' = cloud

\* C27: deleteClient leaves the master row in place with status Inactive
\* and, but for Last Modified, every other field of it unchanged, as well
\* as every other row, the spreadsheets and the folders;
\* processAllClientsWithAI runs over the Active clients only, so not over a
\* deactivated one; activateClient makes the row Active again and changes
\* nothing else but Last Modified; and no step but the rollback of its own
\* creation removes a row.
C27_DeleteOnlyDeactivates ==
    /\ [][updateClientWrites]_vars
    /\ [][ProcessAllClientsWithAI => ranOverActive]_vars
    /\ [][\A name \in ClientNames :
            (DeleteClient(name) \/ ActivateClient(name)) => master' = master]_vars
    /\ [][Len(master') < Len(master) => RollbackMasterRow]_vars

\* ------------------------------------------------------------------- C31
\* C31: whatever the AI service answers, a field missing, malformed or of
\* the wrong type included, validateAndCleanAIResponse returns a date, a
\* vendor name, an invoice number, an amount, a document type and a
\* transaction type that are not empty and a confidence that is a number,
\* and these are the fields of the data processFileWithAI returns.
C31_ValidatedFieldsPopulated ==
    LET v == validateAndCleanAIResponse(job.response, job.timeZone)
    IN /\ v.date # ""
       /\ v.vendorName # <<>>
       /\ v.invoiceNumber # <<>>
       /\ v.amount # ""
       /\ v.documentType # ""
       /\ v.transactionType # ""
       /\ v.confidence \in Int
       /\ aiResult.success =>
              /\ aiResult.data.date = v.date
              /\ aiResult.data.vendorName = v.vendorName
              /\ aiResult.data.invoiceNumber = v.invoiceNumber
              /\ aiResult.data.amount = v.amount
              /\ aiResult.data.documentType = v.documentType
              /\ aiResult.data.transactionType = v.transactionType

\* The answer had no field at all and the record was enriched with the
\* defaults.
C31_Witness ==
    /\ \A field \in DOMAIN job.response : job.response[field] = Undefined
    /\ jobPc = "done"
    /\ aiResult.success
    /\ aiResult.data.vendorName = <<"Unknown", "Vendor">>
    /\ aiResult.data.invoiceNumber = <<UID>>
    /\ aiResult.data.date = TODAY
    /\ aiResult.data.amount = "0.00"
    /\ Len(final) = 1

\* ------------------------------------------------------------------- C32
\* A number between 0 and 1.
inUnitInterval(confidence) ==
    /\ confidence.t = "number"
    /\ confidence.n >= 0
    /\ confidence.n <= 100

\* C32: the confidence processFileWithAI returns and the one of every Final
\* row is a number in [0,1].
C32_StoredConfidenceInRange ==
    /\ aiResult.success => inUnitInterval(aiResult.data.confidence)
    /\ \A i \in DOMAIN final : inUnitInterval(final[i].confidence)

\* ------------------------------------------------------------------- C33
\* C33: the document type of every Final row is one of invoice, receipt,
\* bill, statement, contract, other.
C33_FinalDocumentTypeInEnumeration ==
    \A i \in DOMAIN final : final[i].documentType \in validTypes

\* ------------------------------------------------------------------- C35
\* C35: the derived name of an enriched record parses back to the date, the
\* vendor name, the invoice number and the amount it was derived from.
C35_DerivedNameRoundTrip ==
    aiResult.success =>
        LET fields == aiResult.data
            parsedData == parseFilenameForAIData(fields.newFilename)
        IN /\ parsedData # NoParse
           /\ parsedData.date = fields.date
           /\ parsedData.vendorName = fields.vendorName
           /\ parsedData.invoiceNumber = fields.invoiceNumber
           /\ parsedData.amount = fields.amount

\* C36: moveFilesToInflowOutflow never loses a pending record.  Every File
\* URL whose row is taken out of the Final sheet by the clearFinalSheet of a
\* batch has a row in the Inflow or the Outflow sheet afterwards.
C36_ClearedRowsAreCategorised ==
    [][\A p \in Procs :
          MoveDeleteRows(p) =>
              \A i \in 1..Len(final) :
                  ~hasUrl(final', final[i].fileUrl) =>
                      \/ hasUrl(inflow', final[i].fileUrl)
                      \/ hasUrl(outflow', final[i].fileUrl)]_vars

\* C37: a deletion request without a reason stops the whole batch before
\* anything is applied.  A processBufferChanges invocation that has read a
\* deletion with an empty or whitespace-only reason is at the check and
\* nowhere else; its only step from there throws INVALID_INPUT and changes no
\* sheet row, no folder and no Working field: the deletions that do carry a
\* reason and the pending reactivations stay exactly as the operator left
\* them, and none of them is taken up or applied by this invocation.
C37_BlankReasonStopsBatch ==
    /\ [](\A p \in Procs :
             missingReasons(deletionData[p]) => pc[p] = "pbc_reactivations")
    /\ [][\A p \in Procs :
             (PBCStep(p) /\ missingReasons(deletionData[p])) =>
                 /\ result'[p] = Thrown(PBC, "INVALID_INPUT")
                 /\ pc'[p] = "done"
                 /\ UNCHANGED sheets
                 /\ deletionData'[p] = <<>>
                 /\ reactivationData'[p] = <<>>
                 /\ getFilesMarkedForDeletion(buffer') = getFilesMarkedForDeletion(buffer)
                 /\ getFilesMarkedForReactivation(buffer') =
                        getFilesMarkedForReactivation(buffer)]_vars

\* A batch has thrown INVALID_INPUT for a blank reason while another record
\* was marked Deleted with a reason: that record is still in the Final sheet,
\* its file in the Buffer folder, its reason as the operator typed it.
C37_Witness ==
    /\ pc[1] = "done"
    /\ result[1] = Thrown(PBC, "INVALID_INPUT")
    /\ \E r, s \in Rows :
          /\ r # s
          /\ buffer[r].status = DELETED
          /\ buffer[r].reason = <<" ">>
          /\ buffer[s].status = DELETED
          /\ buffer[s].reason \in HumanReasons \ {<<>>, <<" ">>}
          /\ hasUrl(final, FileUrl(s))
          /\ drive[s].parents = {"Buffer"}

\* C38: one enrichment pass over a record adds exactly one to its Processing
\* Attempts, whatever the path: the record started with no attempt, so once
\* the loop of processClientDocumentsWithAI is through with it the cell
\* holds 1, and before that it holds 0.
C38_OneAttemptPerPass ==
    \A r \in Rows : buffer[r].attempts = IF jobPc = "done" THEN 1 ELSE 0

\* C40: enrichment quiesces.  With passes of processClientDocumentsWithAI
\* run one after the other and nothing else happening, once
\* MAX_PROCESSING_ATTEMPTS passes have returned every Working record is
\* Failed, Deleted or at the attempts cap and getActiveFilesFromBuffer finds
\* nothing; from then on no step of a pass is an AI call, and no step changes
\* a sheet, a folder or the list of files to process.
C40_EnrichmentQuiesces ==
    /\ [](passes >= MAX_PROCESSING_ATTEMPTS =>
             /\ getActiveFilesFromBuffer(buffer) = <<>>
             /\ \A r \in Rows :
                   \/ buffer[r].status \in {FAILED, DELETED}
                   \/ buffer[r].attempts >= MAX_PROCESSING_ATTEMPTS)
    /\ [][passes >= MAX_PROCESSING_ATTEMPTS =>
             /\ UNCHANGED <<sheets, enriched, activeFiles>>
             /\ ~(AIFreshSuccess(1) \/ AIFreshFailure(1))]_vars

\* More passes than the cap have returned: one record was enriched in every
\* pass until it reached the cap, the other failed on the way.
C40_Witness ==
    /\ passes > MAX_PROCESSING_ATTEMPTS
    /\ \E r, s \in Rows :
          /\ buffer[r].status = ACTIVE
          /\ buffer[r].attempts = MAX_PROCESSING_ATTEMPTS
          /\ buffer[s].status = FAILED
          /\ buffer[s].attempts = 2

\* C34: status and reason change together.  The row as it stands right
\* after a writer has set its Status cell, with the Reason cell still to be
\* written, is read by getFilesMarkedForDeletion and
\* getFilesMarkedForReactivation as the row was read before the write or as
\* it is read once the transition is complete (a completed deletion,
\* reactivation, failure or retry is neither a deletion nor a reactivation
\* request).
markedAs(buf, r) ==
    <<r \in rowIndexes(getFilesMarkedForDeletion(buf)),
      r \in rowIndexes(getFilesMarkedForReactivation(buf))>>

C34_StatusAndReasonTogether ==
    [][\A p \in Procs :
          StatusWrite(p) =>
              \A r \in Rows :
                  markedAs(buffer', r) \in {markedAs(buffer, r), <<FALSE, FALSE>>}]_vars

\* C39: client names and Gmail labels stay unique under concurrency.  No
\* two rows of the master sheet have the same name or the same label,
\* compared case-insensitively.
C39_NamesAndLabelsUnique ==
    \A i, j \in DOMAIN master :
        i # j =>
            /\ toLowerCase(master[i].name) # toLowerCase(master[j].name)
            /\ toLowerCase(master[i].gmailLabel) # toLowerCase(master[j].gmailLabel)

====
